---- MODULE Spec2Model ----
(***************************************************************************)
(* Model of the declassified-imagery monitor (src/monitor.py): the remote  *)
(* catalog, the SQLite store (tables scenes and meta), one run of          *)
(* run_monitor as a sequence of steps between store commits, and the       *)
(* retry loop of USGSClient._request.                                      *)
(*                                                                         *)
(* Four specifications share the variables:                                *)
(*   Spec         runs of run_monitor against a remote catalog; a request  *)
(*                through _request either returns its data or raises, and  *)
(*                the deliveries of the dispatch are one step;             *)
(*   SpecDispatch the dispatch of a run (lines 1160-1196), the message of  *)
(*                each record step by step;                                *)
(*   SpecWalk     the seed run on a fresh store when nothing fails, with   *)
(*                the fairness of a sequential program;                    *)
(*   SpecRequest  one call of _request, attempt by attempt.                *)
(***************************************************************************)
EXTENDS Integers, Sequences, FiniteSets, TLC

\* ------------------------------------------------------------------ bounds
\* Entity ids are opaque; NumIds of them exist.
NumIds == 3
\* Longest catalog of one dataset, and the records of all catalogs together.
MaxCatalog == 3
MaxRecords == 3
\* How many of the three datasets the runs walk (the first NumDatasets).
NumDatasets == 2
\* batch_size (10000 in the source) and flush_every (5 in the source), scaled
\* so that a catalog of MaxCatalog records has full, short and empty pages
\* and reaches the flush threshold flush_every * batch_size.
batch_size == 2
flush_every == 1
\* A max_individual_messages that a new set of MaxRecords records exceeds.
LowThreshold == 1
\* How many pages an available set may exceed max_results by.
ExtraPages == 2
\* Longest new set handed to format_notification: a dataset of more than three
\* records next to another dataset.
MaxSummary == 5
\* How many requests one client sends.
MaxRequests == 10

\* ------------------------------------------------------- program constants
AllDatasets == <<"corona2", "declassii", "declassiii">>
DATASETS == SubSeq(AllDatasets, 1, IF NumDatasets < 3 THEN NumDatasets ELSE 3)
\* max_results is 500000 = 50 pages of batch_size.
max_results == 50 * batch_size
\* _request(..., _retries=5)
Retries == 5
\* max_individual_messages when the configuration does not set it (line 1167).
max_individual_default == 20

Ids == 1..NumIds
DatasetSet == {DATASETS[i] : i \in 1..Len(DATASETS)}
None == "None"
\* No seed_cursor_<dataset> row in table meta.
NoCursor == 0
NoGoal == [set |-> FALSE, ids |-> {}, interrupted |-> FALSE]
\* The notifications configuration before the dispatch has read it.
NoConfig == [telegram |-> FALSE, ntfy |-> FALSE, discord |-> FALSE, max_individual |-> 0]
NoCalls == [login |-> 0, logout |-> 0]
\* The metadata_urls_file of a run that has not opened it.
NoAudit == [mode |-> None, lines |-> <<>>]
NoMeta == [browse_url |-> FALSE, bbox |-> FALSE, location |-> FALSE]

VARIABLES
    \* --- remote service
    catalog,          \* dataset -> sequence of entity ids, the unfiltered catalog
    downloadable,     \* set of <<dataset, id>> the service flags "download available"
    \* --- store (scenes.db)
    scenes,           \* table scenes: set of rows
    all_scenes_seeded,\* meta row 'all_scenes_seeded' = '1'
    seed_cursor,      \* meta rows seed_cursor_<dataset>: dataset -> position, NoCursor if absent
    \* --- a call of a store method (Database)
    entity_ids,       \* mark_available: the parameter entity_ids, a set of ids
    message,          \* line 1185: local message, the lines format_notification returns
    requests,         \* history: the requests a client sent, [endpoint, headers, ok]
    \* --- one run of run_monitor
    pc,               \* position of the run
    api_key,          \* USGSClient.api_key
    seeded,           \* local seeded (read once, line 1109)
    di,               \* index of the dataset the for loop is at
    known_ids,        \* local known_ids
    available_scenes, \* local available_scenes (sequence of ids)
    new_scenes_total, \* local new_scenes_total: sequence of [entityId, dataset]
    seed_from,        \* search_all_scenes: the position line 695 read
    starting_number,  \* search_all_scenes: starting_number
    pending,          \* search_all_scenes: pending
    page,             \* search_all_scenes: scenes, the page just fetched
    new_scenes,       \* local new_scenes of the dataset at hand (sequence of ids)
    raised,           \* None, or where the exception propagating out of the try block
                      \* was raised: "login" or the dataset being processed
    \* --- history of the runs (not program state)
    lastRun,          \* "running", or how the last run ended: "none", "ok" (returned),
                      \* "error" (raised what the try block raised), "logout_error"
                      \* (raised what the logout request raised), "crashed"
    processed,        \* datasets whose reconciliation completed in the current run
    polled,           \* ids the poll inserted with available=True (lines 1133-1136)
    stable,           \* dataset -> reconciled in an earlier run and remote unchanged since
    calls,            \* the requests of the current or last run: [login, logout] counts
    walkGoal,         \* dataset -> [set: a walk started from position 1 and the remote
                      \* has not changed since, ids: the unscanned set an
                      \* uninterrupted walk leaves, interrupted: a crash or a request
                      \* that raised cut the walk]
    \* --- the dispatch of a run (lines 1160-1189)
    audit,            \* what the run has done to the metadata_urls_file (new_scenes.txt,
                      \* which the program never reads): [mode: how it was opened,
                      \* lines: the lines written]
    config,           \* the notifications configuration the dispatch reads
    si,               \* index of the record the per-record loop is at
    sent,             \* the deliveries the run has attempted, in order
    \* --- the loop body of lines 1174-1177 for one record
    sc_pc,            \* "idle", "extract", "download", "resize", "map", "send", "photo",
                      \* "text", "return"
    scene_meta,       \* extract_scene_metadata: [browse_url, bbox, location], each
                      \* present (TRUE) or None (FALSE)
    media,            \* send_telegram_scene: media, the file names
    tg_posts,         \* the Telegram posts of the call: [kind, media, location, ok]
    failures,         \* the enrichment calls of the record that failed
    \* --- one call of _request
    rq_pc,            \* "idle", "try", "returned", "raised"
    endpoint,
    attempt,          \* loop variable attempt (0-based)
    posts,            \* number of requests.post calls made
    waits,            \* the time.sleep arguments, in order
    last_resp,        \* what the last requests.post gave: [exc, status, errorCode]
    rq_result,        \* what the call returned or raised: [kind, exc, status]
    allTransient      \* every attempt so far failed with a network error or 502/503/504

remoteVars == <<catalog, downloadable>>
callVars == <<entity_ids, message, requests>>
storeVars == <<scenes, all_scenes_seeded, seed_cursor>>
localVars == <<api_key, seeded, di, known_ids, available_scenes, new_scenes_total,
               seed_from, starting_number, pending, page, new_scenes, raised>>
histVars == <<lastRun, processed, polled, stable, walkGoal>>
dispatchVars == <<audit, config, si, sent>>
sceneVars == <<sc_pc, scene_meta, media, tg_posts, failures>>
requestVars == <<rq_pc, endpoint, attempt, posts, waits, last_resp, rq_result, allTransient>>
vars == <<remoteVars, storeVars, pc, localVars, histVars, requestVars, dispatchVars, calls,
          sceneVars, callVars>>

Min(a, b) == IF a < b THEN a ELSE b

\* -------------------------------------------------------------- store
\* A row of table scenes; the columns the reconciliation reads or writes.
Row(eid, dataset, available) ==
    [entity_id |-> eid, dataset |-> dataset, available |-> available, notified |-> 0]

RowIds(db) == {r.entity_id : r \in db}

get_known_entity_ids(dataset) ==
    {r.entity_id : r \in {s \in scenes : s.dataset = dataset}}

get_unavailable_ids(db, dataset) ==
    {r.entity_id : r \in {s \in db : s.dataset = dataset /\ s.available = 0}}

get_seed_cursor(dataset) ==
    IF seed_cursor[dataset] = NoCursor THEN 1 ELSE seed_cursor[dataset]

\* The row is left in table meta.
clear_seed_cursor_keep(dataset) == seed_cursor

\* DELETE FROM meta WHERE key = seed_cursor_<dataset>.
clear_seed_cursor(dataset) == [seed_cursor EXCEPT ![dataset] = NoCursor]

SeqIds(s) == {s[i] : i \in 1..Len(s)}

\* INSERT OR REPLACE instead of INSERT OR IGNORE.
add_scenes_replace(db, ids, dataset, available) ==
    {r \in db : r.entity_id \notin SeqIds(ids)}
        \cup {Row(eid, dataset, available) : eid \in SeqIds(ids)}

\* INSERT into a table without the primary key.
add_scenes_insert(db, ids, dataset, available) ==
    db \cup {Row(eid, dataset, available) : eid \in SeqIds(ids)}

\* INSERT OR IGNORE INTO scenes: a row is written only for an id that has none.
add_scenes(db, ids, dataset, available) ==
    db \cup {Row(eid, dataset, available) : eid \in SeqIds(ids) \ RowIds(db)}

\* INSERT OR REPLACE of a row with available = 1 for each id.
mark_available_upsert(db, eids) ==
    {r \in db : r.entity_id \notin eids}
        \cup {[entity_id |-> eid, dataset |-> None, available |-> 1, notified |-> 0] :
                eid \in eids}

mark_available(db, eids) ==
    {IF r.entity_id \in eids THEN [r EXCEPT !.available = 1] ELSE r : r \in db}

\* UPDATE scenes SET notified = 1 - notified.
mark_notified_toggle(db, eids) ==
    {IF r.entity_id \in eids THEN [r EXCEPT !.notified = 1 - r.notified] ELSE r : r \in db}

\* UPDATE scenes SET notified = 1 WHERE entity_id = ?, for each id.
mark_notified(db, eids) ==
    {IF r.entity_id \in eids THEN [r EXCEPT !.notified = 1] ELSE r : r \in db}

\* -------------------------------------------------------------- remote
\* scene-search with the "download available" metadata filter: the records of
\* the catalog the service flags, in catalog order.
Filtered(dataset) ==
    SelectSeq(catalog[dataset], LAMBDA eid : <<dataset, eid>> \in downloadable)

\* One page of a result list: maxResults records from startingNumber (1-based).
Page(list, start) ==
    IF start > Len(list) THEN <<>>
    ELSE SubSeq(list, start, Min(start + batch_size - 1, Len(list)))

\* search_dataset without the test of lines 677-679.
RECURSIVE SearchLoop_nolimit(_, _, _)
SearchLoop_nolimit(list, all_scenes, start) ==
    LET got == Page(list, start)
        all == all_scenes \o got
    IN  IF got = <<>> THEN all_scenes
        ELSE IF Len(got) < batch_size THEN all
        ELSE SearchLoop_nolimit(list, all, start + batch_size)

\* search_dataset: the while loop of lines 651-679.
RECURSIVE SearchLoop(_, _, _)
SearchLoop(list, all_scenes, start) ==
    LET got == Page(list, start)
        all == all_scenes \o got
    IN  IF got = <<>> THEN all_scenes
        ELSE IF Len(got) < batch_size THEN all
        ELSE IF Len(all) >= max_results THEN all
        ELSE SearchLoop(list, all, start + batch_size)

search_dataset(dataset) == SearchLoop(Filtered(dataset), <<>>, 1)

\* -------------------------------------------------------------- Init
\* Ids are opaque, so catalogs are enumerated up to renaming: over the catalogs
\* read in DATASETS order, a new id is always the smallest unused one.
Canonical(c) ==
    \A i \in 1..Len(c) : \/ c[i] = 1
                         \/ \E j \in 1..(i - 1) : c[j] >= c[i] - 1

\* The records of all catalogs, in DATASETS order.
RecordSeqs ==
    {c \in UNION {[1..n -> Ids] : n \in 0..MaxRecords} : Canonical(c)}

\* The catalogs that cut c into one piece per dataset, at the ends cuts[i].
Split(c, cuts) ==
    [d \in DatasetSet |->
        LET i == CHOOSE k \in 1..Len(DATASETS) : DATASETS[k] = d
        IN  SubSeq(c, (IF i = 1 THEN 0 ELSE cuts[i - 1]) + 1, cuts[i])]

Catalogs ==
    {Split(c, cuts) : <<c, cuts>> \in
        {<<c, cuts>> \in RecordSeqs \X [1..Len(DATASETS) -> 0..MaxRecords] :
            /\ cuts[Len(DATASETS)] = Len(c)
            /\ \A i \in 1..Len(DATASETS) :
                  /\ cuts[i] - (IF i = 1 THEN 0 ELSE cuts[i - 1]) >= 0
                  /\ cuts[i] - (IF i = 1 THEN 0 ELSE cuts[i - 1]) <= MaxCatalog}}

LocalsInit ==
    /\ api_key = None
    /\ seeded = FALSE
    /\ di = 0
    /\ known_ids = {}
    /\ available_scenes = <<>>
    /\ new_scenes_total = <<>>
    /\ seed_from = 0
    /\ starting_number = 0
    /\ pending = <<>>
    /\ page = <<>>
    /\ new_scenes = <<>>
    /\ raised = None

NoResp == [exc |-> None, status |-> 0, errorCode |-> FALSE]
NoResult == [kind |-> "none", exc |-> None, status |-> 0]

RequestIdle ==
    /\ rq_pc = "idle"
    /\ endpoint = None
    /\ attempt = 0
    /\ posts = 0
    /\ waits = <<>>
    /\ last_resp = NoResp
    /\ rq_result = NoResult
    /\ allTransient = TRUE

\* A fresh scenes.db (Database._init_db) and a remote catalog nothing of which
\* is downloadable yet.
RunInit ==
    /\ entity_ids = {}
    /\ message = <<>>
    /\ requests = <<>>
    /\ catalog \in Catalogs
    /\ downloadable = {}
    /\ scenes = {}
    /\ all_scenes_seeded = FALSE
    /\ seed_cursor = [d \in DatasetSet |-> NoCursor]
    /\ pc = "idle"
    /\ LocalsInit
    /\ lastRun = "none"
    /\ processed = {}
    /\ polled = {}
    /\ stable = [d \in DatasetSet |-> FALSE]
    /\ walkGoal = [d \in DatasetSet |-> NoGoal]
    /\ calls = NoCalls
    /\ audit = NoAudit
    /\ config = NoConfig
    /\ si = 0
    /\ sent = <<>>
    /\ sc_pc = "idle"
    /\ scene_meta = NoMeta
    /\ media = <<>>
    /\ tg_posts = <<>>
    /\ failures = {}

Init == RunInit /\ RequestIdle

\* The locals of a run that has ended.
ResetLocals ==
    /\ api_key' = None
    /\ seeded' = FALSE
    /\ di' = 0
    /\ known_ids' = {}
    /\ available_scenes' = <<>>
    /\ new_scenes_total' = <<>>
    /\ seed_from' = 0
    /\ starting_number' = 0
    /\ pending' = <<>>
    /\ page' = <<>>
    /\ new_scenes' = <<>>
    /\ raised' = None
    /\ audit' = NoAudit
    /\ config' = NoConfig
    /\ si' = 0
    /\ sent' = <<>>
    /\ sc_pc' = "idle"
    /\ scene_meta' = NoMeta
    /\ media' = <<>>
    /\ tg_posts' = <<>>
    /\ failures' = {}

\* The locals of the dataset iteration, cleared when the for loop moves on.
ResetIteration ==
    /\ known_ids' = {}
    /\ available_scenes' = <<>>
    /\ new_scenes' = <<>>
    /\ seed_from' = 0
    /\ starting_number' = 0
    /\ pending' = <<>>
    /\ page' = <<>>

cur_dataset == DATASETS[di]
available_ids == SeqIds(available_scenes)

\* -------------------------------------------------------------- remote change
\* The service digitises a record: it becomes downloadable.  Between runs.
Digitize ==
    /\ pc = "idle"
    /\ \E d \in DatasetSet : \E eid \in SeqIds(catalog[d]) :
          /\ <<d, eid>> \notin downloadable
          /\ downloadable' = downloadable \cup {<<d, eid>>}
    /\ stable' = [d \in DatasetSet |-> FALSE]
    /\ walkGoal' = [d \in DatasetSet |-> NoGoal]
    /\ UNCHANGED <<catalog, callVars, storeVars, pc, localVars, lastRun, processed, polled,
                   requestVars, dispatchVars, calls, sceneVars>>

\* -------------------------------------------------------------- run_monitor
StartRun ==
    /\ pc = "idle"
    /\ pc' = "login"
    /\ lastRun' = "running"
    /\ calls' = NoCalls
    /\ UNCHANGED <<remoteVars, callVars, storeVars, localVars, processed, polled, stable,
                   walkGoal, requestVars, dispatchVars, sceneVars>>

\* The flag is not read: every run is a seed run.
Login_unseeded ==
    /\ pc = "login"
    /\ api_key' = "token"
    /\ seeded' = FALSE
    /\ di' = 1
    /\ pc' = "fetch"
    /\ calls' = [calls EXCEPT !.login = @ + 1]
    /\ UNCHANGED <<remoteVars, callVars, storeVars, known_ids, available_scenes,
                   new_scenes_total, seed_from, starting_number, pending, page, new_scenes,
                   raised, histVars, requestVars, dispatchVars, sceneVars>>

\* client.login() returned; seeded = db.is_seeded().
Login ==
    /\ pc = "login"
    /\ api_key' = "token"
    /\ seeded' = all_scenes_seeded
    /\ di' = 1
    /\ pc' = "fetch"
    /\ calls' = [calls EXCEPT !.login = @ + 1]
    /\ UNCHANGED <<remoteVars, callVars, storeVars, known_ids, available_scenes,
                   new_scenes_total, seed_from, starting_number, pending, page, new_scenes,
                   raised, histVars, requestVars, dispatchVars, sceneVars>>

\* A request (login, scene-search of the poll, scene-search of the walk) raised:
\* nothing in run_monitor catches it, the finally block is next.
RequestRaises ==
    /\ pc \in {"login", "fetch", "seed_page"}
    /\ raised' = IF pc = "login" THEN "login" ELSE cur_dataset
    /\ pc' = "logout"
    /\ new_scenes_total' = <<>>
    /\ di' = 0
    /\ ResetIteration
    /\ calls' = IF pc = "login" THEN [calls EXCEPT !.login = @ + 1] ELSE calls
    /\ walkGoal' = IF pc = "seed_page" /\ walkGoal[cur_dataset].set
                   THEN [walkGoal EXCEPT ![cur_dataset].interrupted = TRUE]
                   ELSE walkGoal
    /\ UNCHANGED <<remoteVars, callVars, storeVars, api_key, seeded, lastRun, processed, polled,
                   stable, requestVars, dispatchVars, sceneVars>>

\* A break after the first dataset.
NextDataset_break ==
    /\ ResetIteration
    /\ di' = 0
    /\ pc' = IF seeded THEN "dispatch" ELSE "mark_seeded"

\* The body of the for loop after the processing of one cur_dataset.
NextDataset ==
    /\ ResetIteration
    /\ IF di < Len(DATASETS)
       THEN /\ di' = di + 1
            /\ pc' = "fetch"
       ELSE /\ di' = 0
            /\ pc' = IF seeded THEN "dispatch" ELSE "mark_seeded"

\* Lines 1120-1138: known ids, the poll of the available records, new_scenes
\* and its insertion.
ReconcileNew ==
    /\ pc = "fetch"
    /\ LET known == get_known_entity_ids(cur_dataset)
           avail == search_dataset(cur_dataset)
           new == SelectSeq(avail, LAMBDA eid : eid \notin known)
       IN  /\ known_ids' = known
           /\ available_scenes' = avail
           /\ new_scenes' = new
           /\ IF new # <<>>
              THEN /\ scenes' = add_scenes(scenes, new, cur_dataset, 1)
                   /\ new_scenes_total' = new_scenes_total \o
                         [i \in 1..Len(new) |-> [entityId |-> new[i], dataset |-> cur_dataset]]
                   /\ polled' = polled \cup (SeqIds(new) \ RowIds(scenes))
              ELSE UNCHANGED <<scenes, new_scenes_total, polled, sceneVars>>
    /\ pc' = "mark_avail"
    /\ UNCHANGED <<remoteVars, callVars, all_scenes_seeded, seed_cursor, api_key, seeded, di,
                   seed_from, starting_number, pending, page, raised, lastRun, processed, stable,
                   walkGoal, requestVars, dispatchVars, calls, sceneVars>>

newly_scanned == {eid \in available_ids : eid \in get_unavailable_ids(scenes, cur_dataset)}

\* Lines 1141-1150: the flip of the newly digitised rows.
MarkNewlyScanned ==
    /\ pc = "mark_avail"
    /\ scenes' = mark_available(scenes, newly_scanned)
    /\ processed' = processed \cup {cur_dataset}
    /\ stable' = [stable EXCEPT ![cur_dataset] = TRUE]
    /\ IF seeded
       THEN NextDataset
       ELSE /\ pc' = "seed_start"
            /\ UNCHANGED <<di, known_ids, available_scenes, new_scenes, seed_from, starting_number,
                           pending, page, sceneVars>>
    /\ UNCHANGED <<remoteVars, callVars, all_scenes_seeded, seed_cursor, api_key, seeded,
                   new_scenes_total, raised, lastRun, polled, walkGoal, requestVars,
                   dispatchVars, calls, sceneVars>>

\* db.mark_seeded() called before the walk instead of after the for loop.
SeedStart_marks ==
    /\ pc = "seed_start"
    /\ seed_from' = get_seed_cursor(cur_dataset)
    /\ starting_number' = get_seed_cursor(cur_dataset)
    /\ pending' = <<>>
    /\ page' = <<>>
    /\ pc' = "seed_page"
    /\ all_scenes_seeded' = TRUE
    /\ walkGoal' =
          IF ~walkGoal[cur_dataset].set /\ get_seed_cursor(cur_dataset) = 1
          THEN [walkGoal EXCEPT ![cur_dataset] =
                  [set |-> TRUE,
                   ids |-> get_unavailable_ids(scenes, cur_dataset) \cup
                             {eid \in SeqIds(catalog[cur_dataset]) :
                                 /\ eid \notin known_ids
                                 /\ eid \notin available_ids
                                 /\ eid \notin RowIds(scenes)},
                   interrupted |-> FALSE]]
          ELSE walkGoal
    /\ UNCHANGED <<remoteVars, callVars, scenes, seed_cursor, api_key, seeded, di, known_ids,
                   available_scenes, new_scenes_total, new_scenes, raised, lastRun,
                   processed, polled, stable, requestVars, dispatchVars, calls, sceneVars>>

\* search_all_scenes, line 695: the walk starts at the persisted cursor, or 1.
SeedStart ==
    /\ pc = "seed_start"
    /\ seed_from' = get_seed_cursor(cur_dataset)
    /\ starting_number' = get_seed_cursor(cur_dataset)
    /\ pending' = <<>>
    /\ page' = <<>>
    /\ pc' = "seed_page"
    /\ walkGoal' =
          IF ~walkGoal[cur_dataset].set /\ get_seed_cursor(cur_dataset) = 1
          THEN [walkGoal EXCEPT ![cur_dataset] =
                  [set |-> TRUE,
                   ids |-> get_unavailable_ids(scenes, cur_dataset) \cup
                             {eid \in SeqIds(catalog[cur_dataset]) :
                                 /\ eid \notin known_ids
                                 /\ eid \notin available_ids
                                 /\ eid \notin RowIds(scenes)},
                   interrupted |-> FALSE]]
          ELSE walkGoal
    /\ UNCHANGED <<remoteVars, callVars, storeVars, api_key, seeded, di, known_ids,
                   available_scenes, new_scenes_total, new_scenes, raised, lastRun,
                   processed, polled, stable, requestVars, dispatchVars, calls, sceneVars>>

\* The records of a page the walk buffers (lines 713-716).
Unscanned(scenes_page) ==
    SelectSeq(scenes_page, LAMBDA eid : eid \notin known_ids /\ eid \notin available_ids)

\* The final flush of lines 738-740 left out.
AfterPage_noflush(scenes_page) ==
    IF Len(scenes_page) < batch_size THEN "seed_clear" ELSE "seed_page"

\* Where the loop goes after a page, once any flush is done (lines 732-733).
AfterPage(scenes_page) ==
    IF Len(scenes_page) < batch_size THEN "seed_final" ELSE "seed_page"

\* Lines 702-725: one page of the unfiltered catalog is fetched and filtered.
SeedPage ==
    /\ pc = "seed_page"
    /\ LET got == Page(catalog[cur_dataset], starting_number)
       IN  /\ page' = got
           /\ IF got = <<>>
              THEN /\ pc' = "seed_final"
                   /\ UNCHANGED <<pending, starting_number, sceneVars>>
              ELSE /\ pending' = pending \o Unscanned(got)
                   /\ starting_number' = starting_number + batch_size
                   /\ pc' = IF Len(pending') >= flush_every * batch_size
                            THEN "seed_flush_add"
                            ELSE AfterPage(got)
    /\ UNCHANGED <<remoteVars, callVars, storeVars, api_key, seeded, di, known_ids,
                   available_scenes, new_scenes_total, seed_from, new_scenes, raised,
                   histVars, requestVars, dispatchVars, calls, sceneVars>>

\* save_seed_cursor before add_scenes: the cursor row is written while the
\* buffer is still in memory.
SeedFlushAdd_cursorfirst ==
    /\ pc = "seed_flush_add"
    /\ seed_cursor' = [seed_cursor EXCEPT ![cur_dataset] = starting_number]
    /\ pc' = "seed_flush_cursor"
    /\ UNCHANGED <<remoteVars, callVars, scenes, all_scenes_seeded, localVars, histVars,
                   requestVars, dispatchVars, calls, sceneVars>>

\* Lines 726-728: the buffer is written to the store.
SeedFlushAdd ==
    /\ pc = "seed_flush_add"
    /\ scenes' = add_scenes(scenes, pending, cur_dataset, 0)
    /\ pending' = <<>>
    /\ pc' = "seed_flush_cursor"
    /\ UNCHANGED <<remoteVars, callVars, all_scenes_seeded, seed_cursor, api_key, seeded, di,
                   known_ids, available_scenes, new_scenes_total, seed_from, starting_number, page,
                   new_scenes, raised, histVars, requestVars, dispatchVars, calls, sceneVars>>

\* A cursor one page too far.
FlushedCursor_skip == starting_number + batch_size

\* The position save_seed_cursor persists at line 729.
FlushedCursor == starting_number

\* Line 729: the advanced cursor is persisted.
SeedFlushCursor ==
    /\ pc = "seed_flush_cursor"
    /\ seed_cursor' = [seed_cursor EXCEPT ![cur_dataset] = FlushedCursor]
    /\ pc' = AfterPage(page)
    /\ UNCHANGED <<remoteVars, callVars, scenes, all_scenes_seeded, localVars, histVars,
                   requestVars, dispatchVars, calls, sceneVars>>

\* Lines 738-740: the final flush.
SeedFinalFlush ==
    /\ pc = "seed_final"
    /\ scenes' = IF pending # <<>> THEN add_scenes(scenes, pending, cur_dataset, 0)
                 ELSE scenes
    /\ pending' = <<>>
    /\ pc' = "seed_clear"
    /\ UNCHANGED <<remoteVars, callVars, all_scenes_seeded, seed_cursor, api_key, seeded, di,
                   known_ids, available_scenes, new_scenes_total, seed_from, starting_number, page,
                   new_scenes, raised, histVars, requestVars, dispatchVars, calls, sceneVars>>

\* Line 742: the cursor row is deleted; the for loop goes on.
SeedClearCursor ==
    /\ pc = "seed_clear"
    /\ seed_cursor' = clear_seed_cursor(cur_dataset)
    /\ NextDataset
    /\ UNCHANGED <<remoteVars, callVars, scenes, all_scenes_seeded, api_key, seeded,
                   new_scenes_total, raised, histVars, requestVars, dispatchVars, calls,
                   sceneVars>>

\* Lines 1155-1156.
MarkSeeded ==
    /\ pc = "mark_seeded"
    /\ all_scenes_seeded' = TRUE
    /\ pc' = "dispatch"
    /\ UNCHANGED <<remoteVars, callVars, scenes, seed_cursor, localVars, histVars, requestVars,
                   dispatchVars, calls, sceneVars>>

\* -------------------------------------------------------------- dispatch
\* A line of the metadata_urls_file.  kind is "blank", "header" (# New scenes -
\* timestamp), "count" (# n scenes), "comment" (# display_id | dataset |
\* acq_date) or "url" (the metadata URL of dataset and display_id).
AuditLine(kind, n, eid, dataset) ==
    [kind |-> kind, n |-> n, entityId |-> eid, dataset |-> dataset]

\* One line for each record: the URL only.
AuditBlock_urlonly(scenes_list) ==
    [i \in 1..Len(scenes_list) |->
        AuditLine("url", 0, scenes_list[i].entityId, scenes_list[i].dataset)]

\* The lines one call of save_metadata_urls writes (lines 1204-1214).
AuditBlock(scenes_list) ==
    <<AuditLine("blank", 0, 0, None), AuditLine("header", 0, 0, None),
      AuditLine("count", Len(scenes_list), 0, None)>>
    \o [i \in 1..(2 * Len(scenes_list)) |->
          LET scene == scenes_list[(i + 1) \div 2]
          IN  AuditLine(IF i % 2 = 1 THEN "comment" ELSE "url", 0,
                        scene.entityId, scene.dataset)]

\* The file opened with mode "w": what it held is lost.
save_metadata_urls_w(scenes_list) == [mode |-> "w", lines |-> AuditBlock(scenes_list)]

\* save_metadata_urls: the file is opened with mode "a" and the block written
\* after what it holds.
save_metadata_urls(scenes_list) == [mode |-> "a", lines |-> AuditBlock(scenes_list)]

\* The test of line 1160 left out: the dispatch runs for an empty set too.
Dispatch_always ==
    /\ pc = "dispatch"
    /\ audit' = save_metadata_urls(new_scenes_total)
    /\ pc' = "strategy"
    /\ UNCHANGED <<remoteVars, callVars, storeVars, localVars, histVars, requestVars, config, si,
                   sent, calls, sceneVars>>

\* Lines 1160-1164: nothing to dispatch for an empty new set; else the audit
\* file is written first.
Dispatch ==
    /\ pc = "dispatch"
    /\ IF new_scenes_total # <<>>
       THEN /\ audit' = save_metadata_urls(new_scenes_total)
            /\ pc' = "strategy"
       ELSE /\ pc' = "logout"
            /\ UNCHANGED audit
    /\ UNCHANGED <<remoteVars, callVars, storeVars, localVars, histVars, requestVars, config, si,
                   sent, calls, sceneVars>>

\* Line 1203: open() or a write raises OSError; nothing in run_monitor catches it.
SaveUrlsRaises ==
    /\ pc = "dispatch"
    /\ new_scenes_total # <<>>
    /\ raised' = "audit"
    /\ pc' = "logout"
    /\ UNCHANGED <<remoteVars, callVars, storeVars, api_key, seeded, di, known_ids,
                   available_scenes, new_scenes_total, seed_from, starting_number, pending,
                   page, new_scenes, histVars, requestVars, dispatchVars, calls, sceneVars>>

\* The notifications configurations: each channel enabled or not (an enabled
\* channel carries its bot_token and chat_id, topic or webhook_url) and
\* max_individual_messages.
Thresholds == {LowThreshold, max_individual_default}
Configs ==
    [telegram : BOOLEAN, ntfy : BOOLEAN, discord : BOOLEAN, max_individual : Thresholds]

\* Per-record messages only below the threshold.
PerRecord_below(cfg, n) == cfg.telegram /\ n < cfg.max_individual

\* Line 1170: telegram_enabled and len(new_scenes_total) <= max_individual.
PerRecord(cfg, n) == cfg.telegram /\ n <= cfg.max_individual

\* Lines 1167-1170: the configuration is read and the strategy chosen.  config
\* is an argument of run_monitor that nothing reads before this line.
ChooseStrategy ==
    /\ pc = "strategy"
    /\ \E cfg \in Configs :
          /\ config' = cfg
          /\ IF PerRecord(cfg, Len(new_scenes_total))
             THEN /\ pc' = "scene"
                  /\ si' = 1
             ELSE /\ pc' = "summary"
                  /\ si' = 0
    /\ UNCHANGED <<remoteVars, callVars, storeVars, localVars, histVars, requestVars, audit,
                   sent, calls, sceneVars>>

\* A delivery attempt: the channel, "scene" (the message of record rec of
\* new_scenes_total) or "summary", and whether a message was delivered.
Attempt(to, kind, rec, ok) == [to |-> to, kind |-> kind, rec |-> rec, ok |-> ok]

\* Line 1174: the for loop moves to the next record, or ends.
NextScene ==
    IF si < Len(new_scenes_total)
    THEN /\ si' = si + 1
         /\ pc' = "scene"
    ELSE /\ si' = 0
         /\ pc' = "mark_notified"

\* The channels in the order Notifier.send tries them.
Channels == <<"ntfy", "telegram", "discord">>
Enabled(cfg) == SelectSeq(Channels, LAMBDA c : cfg[c])

\* A failure that aborts the call: the channels after it are not tried.
send_abort(cfg, failed) ==
    LET on == Enabled(cfg)
        upto == IF \E i \in 1..Len(on) : on[i] \in failed
                THEN CHOOSE i \in 1..Len(on) :
                        on[i] \in failed /\ \A j \in 1..(i - 1) : on[j] \notin failed
                ELSE Len(on)
    IN  [i \in 1..upto |-> Attempt(on[i], "summary", 0, on[i] \notin failed)]

\* Notifier.send: the message goes to every enabled channel; each _send_*
\* catches the exception of its own post.  failed: the channels whose post fails.
send(cfg, failed) ==
    LET on == Enabled(cfg)
    IN  [i \in 1..Len(on) |-> Attempt(on[i], "summary", 0, on[i] \notin failed)]

\* Lines 1185-1186: the summary to all channels.
SendSummary ==
    /\ pc = "summary"
    /\ \E failed \in SUBSET SeqIds(Enabled(config)) :
          sent' = sent \o send(config, failed)
    /\ pc' = "mark_notified"
    /\ UNCHANGED <<remoteVars, callVars, storeVars, localVars, histVars, requestVars, audit,
                   config, si, calls, sceneVars>>

\* Lines 1166-1186 as the run sees them: the deliveries return, whatever
\* their outcome, and leave the store and the locals of the run as they are.
Deliver ==
    /\ pc = "strategy"
    /\ pc' = "mark_notified"
    /\ UNCHANGED <<remoteVars, callVars, storeVars, localVars, histVars, requestVars,
                   dispatchVars, calls, sceneVars>>

\* Only the records a delivery succeeded for.
EntityIds_delivered(scenes_list) ==
    {scenes_list[i].entityId : i \in {j \in 1..Len(scenes_list) :
        \E k \in 1..Len(sent) : sent[k].ok /\ sent[k].rec \in {0, j}}}

\* Line 1189: [s.get("entityId") for s in new_scenes_total].
EntityIds(scenes_list) == {scenes_list[i].entityId : i \in 1..Len(scenes_list)}

\* Line 1189.
MarkNotified ==
    /\ pc = "mark_notified"
    /\ scenes' = mark_notified(scenes, EntityIds(new_scenes_total))
    /\ pc' = "logout"
    /\ UNCHANGED <<remoteVars, callVars, all_scenes_seeded, seed_cursor, localVars, histVars,
                   requestVars, dispatchVars, calls, sceneVars>>

\* The logout request only of the runs that returned.
LogoutCalled_onsuccess == api_key # None /\ raised = None

\* logout without the test of line 635.
LogoutCalled_always == TRUE

\* Line 635: logout posts its request when the client holds a session key.
LogoutCalled == api_key # None

\* The finally block, line 1196: client.logout(), and the run ends.  An
\* exception of the logout request replaces the one the try block raised.
Logout ==
    /\ pc = "logout"
    /\ \E logout_ok \in (IF LogoutCalled THEN BOOLEAN ELSE {TRUE}) :
          lastRun' = IF ~logout_ok THEN "logout_error"
                     ELSE IF raised = None THEN "ok" ELSE "error"
    /\ calls' = IF LogoutCalled THEN [calls EXCEPT !.logout = @ + 1] ELSE calls
    /\ pc' = "idle"
    /\ ResetLocals
    /\ processed' = {}
    /\ UNCHANGED <<remoteVars, callVars, storeVars, polled, stable, walkGoal, requestVars>>

\* The process is killed: the locals are lost, the store keeps its commits.
Crash ==
    /\ pc # "idle"
    /\ pc' = "idle"
    /\ lastRun' = "crashed"
    /\ ResetLocals
    /\ walkGoal' =
          IF pc \in {"seed_page", "seed_flush_add", "seed_flush_cursor", "seed_final",
                     "seed_clear"} /\ walkGoal[cur_dataset].set
          THEN [walkGoal EXCEPT ![cur_dataset].interrupted = TRUE]
          ELSE walkGoal
    /\ processed' = {}
    /\ calls' = NoCalls
    /\ UNCHANGED <<remoteVars, callVars, storeVars, polled, stable, requestVars>>

RunNext ==
    \/ Digitize
    \/ StartRun
    \/ Login
    \/ RequestRaises
    \/ ReconcileNew
    \/ MarkNewlyScanned
    \/ SeedStart
    \/ SeedPage
    \/ SeedFlushAdd
    \/ SeedFlushCursor
    \/ SeedFinalFlush
    \/ SeedClearCursor
    \/ MarkSeeded
    \/ Dispatch
    \/ SaveUrlsRaises
    \/ Deliver
    \/ MarkNotified
    \/ Logout
    \/ Crash

Next == RunNext

Spec == Init /\ [][Next]_vars

\* ============================================================ the loop body
\* Lines 1174-1177 for the record at si, step by step: extract_scene_metadata,
\* then send_telegram_scene with its enrichment calls and its posts.
TgPost(kind, files, ok) ==
    [kind |-> kind, media |-> files, location |-> scene_meta.location, ok |-> ok]

SceneCall ==
    /\ pc = "scene"
    /\ sc_pc = "idle"
    /\ sc_pc' = "extract"
    /\ scene_meta' = NoMeta
    /\ media' = <<>>
    /\ tg_posts' = <<>>
    /\ failures' = {}
    /\ UNCHANGED <<remoteVars, callVars, storeVars, pc, localVars, histVars, requestVars,
                   dispatchVars, calls>>

\* extract_scene_metadata: the record has a browse image or not, and a
\* bounding box or not; reverse_geocode (lines 302-352) names the centre of
\* the box, or returns None when its request fails.
ExtractMetadata ==
    /\ sc_pc = "extract"
    /\ \E browse \in BOOLEAN, bbox \in BOOLEAN :
          \E geocoded \in (IF bbox THEN BOOLEAN ELSE {FALSE}) :
             /\ scene_meta' = [browse_url |-> browse, bbox |-> bbox, location |-> geocoded]
             /\ failures' = IF bbox /\ ~geocoded THEN {"geocode"} ELSE {}
    /\ sc_pc' = "download"
    /\ UNCHANGED <<remoteVars, callVars, storeVars, pc, localVars, histVars, requestVars,
                   dispatchVars, calls, media, tg_posts>>

\* Lines 916-925: download_image gives the data, or None (an exception, or
\* data of at most 100 bytes does not count).
DownloadImage ==
    /\ sc_pc = "download"
    /\ IF scene_meta.browse_url
       THEN \E got \in BOOLEAN :
               /\ sc_pc' = IF got THEN "resize" ELSE "map"
               /\ failures' = IF got THEN failures ELSE failures \cup {"download"}
       ELSE /\ sc_pc' = "map"
            /\ UNCHANGED failures
    /\ UNCHANGED <<remoteVars, callVars, storeVars, pc, localVars, histVars, requestVars,
                   dispatchVars, calls, scene_meta, media, tg_posts>>

\* Lines 921-923: resize_image_for_telegram returns the resized image, or the
\* image as downloaded when the resize fails.
ResizeImage ==
    /\ sc_pc = "resize"
    /\ \E resized \in BOOLEAN :
          failures' = IF resized THEN failures ELSE failures \cup {"resize"}
    /\ media' = Append(media, "image.jpg")
    /\ sc_pc' = "map"
    /\ UNCHANGED <<remoteVars, callVars, storeVars, pc, localVars, histVars, requestVars,
                   dispatchVars, calls, scene_meta, tg_posts>>

\* A failed map empties the media list.
MediaWithMap_reset(files, rendered) ==
    IF rendered THEN Append(files, "location.png") ELSE <<>>

\* Lines 929-932: the map joins the media when generate_bbox_map rendered it.
MediaWithMap(files, rendered) ==
    IF rendered THEN Append(files, "location.png") ELSE files

\* Lines 928-932: generate_bbox_map returns None without a bbox, and when the
\* rendering fails.
GenerateMap ==
    /\ sc_pc = "map"
    /\ IF scene_meta.bbox
       THEN \E rendered \in BOOLEAN :
               /\ media' = MediaWithMap(media, rendered)
               /\ failures' = IF rendered THEN failures ELSE failures \cup {"map"}
       ELSE UNCHANGED <<media, failures>>
    /\ sc_pc' = "send"
    /\ UNCHANGED <<remoteVars, callVars, storeVars, pc, localVars, histVars, requestVars,
                   dispatchVars, calls, scene_meta, tg_posts>>

\* Lines 935-938: two images go as a media group; _send_telegram_media_group
\* returns False on an exception or a status other than 200.
SendGroup ==
    /\ sc_pc = "send"
    /\ Len(media) >= 2
    /\ \E ok \in BOOLEAN :
          /\ tg_posts' = Append(tg_posts, TgPost("group", media, ok))
          /\ sc_pc' = IF ok THEN "return" ELSE "photo"
    /\ UNCHANGED <<remoteVars, callVars, storeVars, pc, localVars, histVars, requestVars,
                   dispatchVars, calls, scene_meta, media, failures>>

\* No text after a failed photo.
AfterPhoto_giveup(ok) == "return"

\* Lines 950-953: if not success, the text is sent.
AfterPhoto(ok) == IF ok THEN "return" ELSE "text"

\* Lines 941 and 944: the first image as a single photo.
SendPhoto ==
    /\ \/ sc_pc = "photo"
       \/ sc_pc = "send" /\ Len(media) = 1
    /\ \E ok \in BOOLEAN :
          /\ tg_posts' = Append(tg_posts, TgPost("photo", <<media[1]>>, ok))
          /\ sc_pc' = AfterPhoto(ok)
    /\ UNCHANGED <<remoteVars, callVars, storeVars, pc, localVars, histVars, requestVars,
                   dispatchVars, calls, scene_meta, media, failures>>

\* Lines 947 and 953: the caption as text; _send_telegram_text catches what
\* its post raises.
SendText ==
    /\ \/ sc_pc = "text"
       \/ sc_pc = "send" /\ Len(media) = 0
    /\ \E ok \in BOOLEAN : tg_posts' = Append(tg_posts, TgPost("text", <<>>, ok))
    /\ sc_pc' = "return"
    /\ UNCHANGED <<remoteVars, callVars, storeVars, pc, localVars, histVars, requestVars,
                   dispatchVars, calls, scene_meta, media, failures>>

Delivered == \E k \in 1..Len(tg_posts) : tg_posts[k].ok

\* Line 957: send_telegram_scene returns True, and the for loop goes on.
SceneReturn ==
    /\ sc_pc = "return"
    /\ sc_pc' = "idle"
    /\ sent' = Append(sent, Attempt("telegram", "scene", si, Delivered))
    /\ NextScene
    /\ UNCHANGED <<remoteVars, callVars, storeVars, api_key, seeded, di, known_ids,
                   available_scenes, new_scenes_total, seed_from, starting_number, pending,
                   page, new_scenes, raised, histVars, requestVars, audit, config, calls,
                   scene_meta, media, tg_posts, failures>>

\* The new set of a first run that finds every record of the catalog
\* downloadable, and the rows its polls inserted.
RECURSIVE AllRecords(_)
AllRecords(i) ==
    IF i > Len(DATASETS) THEN <<>>
    ELSE [k \in 1..Len(catalog[DATASETS[i]]) |->
            [entityId |-> catalog[DATASETS[i]][k], dataset |-> DATASETS[i]]]
         \o AllRecords(i + 1)

RECURSIVE PolledRows(_, _)
PolledRows(db, i) ==
    IF i > Len(DATASETS) THEN db
    ELSE PolledRows(add_scenes(db, catalog[DATASETS[i]], DATASETS[i], 1), i + 1)

\* A run at line 1160 with a non-empty new set.
InitDispatch ==
    /\ entity_ids = {}
    /\ message = <<>>
    /\ requests = <<>>
    /\ catalog \in {c \in Catalogs : \E d \in DatasetSet : c[d] # <<>>}
    /\ downloadable = {<<d, eid>> \in DatasetSet \X Ids : eid \in SeqIds(catalog[d])}
    /\ scenes = PolledRows({}, 1)
    /\ all_scenes_seeded = TRUE
    /\ seed_cursor = [d \in DatasetSet |-> NoCursor]
    /\ pc = "dispatch"
    /\ api_key = "token"
    /\ seeded = FALSE
    /\ di = 0
    /\ known_ids = {}
    /\ available_scenes = <<>>
    /\ new_scenes_total = AllRecords(1)
    /\ seed_from = 0
    /\ starting_number = 0
    /\ pending = <<>>
    /\ page = <<>>
    /\ new_scenes = <<>>
    /\ raised = None
    /\ lastRun = "running"
    /\ processed = DatasetSet
    /\ polled = RowIds(scenes)
    /\ stable = [d \in DatasetSet |-> TRUE]
    /\ walkGoal = [d \in DatasetSet |-> NoGoal]
    /\ calls = [login |-> 1, logout |-> 0]
    /\ audit = NoAudit
    /\ config = NoConfig
    /\ si = 0
    /\ sent = <<>>
    /\ sc_pc = "idle"
    /\ scene_meta = NoMeta
    /\ media = <<>>
    /\ tg_posts = <<>>
    /\ failures = {}
    /\ RequestIdle

DispatchNext ==
    \/ Dispatch
    \/ SaveUrlsRaises
    \/ ChooseStrategy
    \/ SceneCall
    \/ ExtractMetadata
    \/ DownloadImage
    \/ ResizeImage
    \/ GenerateMap
    \/ SendGroup
    \/ SendPhoto
    \/ SendText
    \/ SceneReturn
    \/ SendSummary
    \/ MarkNotified
    \/ Logout

SpecDispatch == InitDispatch /\ [][DispatchNext]_vars

\* ============================================================ _request
\* What one requests.post can give: a network exception, or a response with a
\* status and a JSON body that may carry an errorCode.  The service reports
\* its errors in the body of a 200 or of a 4xx response.
NetworkErrors == {"ConnectionError", "Timeout", "ChunkedEncodingError"}
Statuses == {200, 401, 403, 429, 500, 502, 503, 504}
Responses ==
    {[exc |-> e, status |-> 0, errorCode |-> FALSE] : e \in NetworkErrors}
    \cup {[exc |-> None, status |-> st, errorCode |-> FALSE] : st \in Statuses}
    \cup {[exc |-> None, status |-> st, errorCode |-> TRUE] :
             st \in {x \in Statuses : x < 500}}
Endpoints == {"login-token", "scene-search", "logout"}

\* The exception the try body (lines 588-603) raises on a response, None if it
\* returns result.get("data").
TryBody(resp) ==
    IF resp.exc # None THEN resp.exc
    ELSE IF resp.status \in {502, 503, 504} THEN "HTTPError"
    ELSE IF resp.status >= 400 THEN "HTTPError"       \* response.raise_for_status()
    ELSE IF resp.errorCode THEN "Exception"           \* API Error
    ELSE None

\* The except clause of lines 605-611.
Caught(exc) ==
    exc \in {"ChunkedEncodingError", "ConnectionError", "Timeout", "ReadTimeout",
             "HTTPError"}

\* Retrying also after the last attempt.
ShouldRetry_always(n) == n < Retries

\* Line 613: attempt < _retries - 1.
ShouldRetry(n) == n < Retries - 1

\* Line 614: wait = 2 ** attempt.
BackoffWait(n) == 2 ^ n

\* Network errors and gateway statuses: the errors the design calls transient.
IsTransient(resp) == resp.exc # None \/ resp.status \in {502, 503, 504}
\* A 4xx status other than rate-limit.
IsFatalHTTP(resp) == resp.exc = None /\ resp.status \in 400..499 /\ resp.status # 429

Raise(resp) == [kind |-> "raise", exc |-> TryBody(resp), status |-> resp.status]
Data == [kind |-> "data", exc |-> None, status |-> 200]
ReturnsNone == [kind |-> "data", exc |-> None, status |-> 0]

\* _request(endpoint, data) is called.
RequestCall ==
    /\ rq_pc = "idle"
    /\ \E e \in Endpoints : endpoint' = e
    /\ rq_pc' = "try"
    /\ UNCHANGED <<remoteVars, callVars, storeVars, pc, localVars, histVars, dispatchVars, calls,
                   attempt, posts, waits,
                   last_resp, rq_result, allTransient, sceneVars>>

Post(resp) ==
    /\ rq_pc = "try"
    /\ attempt < Retries
    /\ posts' = posts + 1
    /\ last_resp' = resp
    /\ allTransient' = (allTransient /\ IsTransient(resp))

\* Lines 588-603 without an exception: the data is returned.
RequestReturns ==
    /\ \E resp \in Responses :
          /\ TryBody(resp) = None
          /\ Post(resp)
    /\ rq_pc' = "returned"
    /\ rq_result' = Data
    /\ UNCHANGED <<remoteVars, callVars, storeVars, pc, localVars, histVars, dispatchVars, calls,
                   endpoint, attempt,
                   waits, sceneVars>>

\* An exception the except clause does not name propagates.
RequestPropagates ==
    /\ \E resp \in Responses :
          /\ TryBody(resp) # None
          /\ ~Caught(TryBody(resp))
          /\ Post(resp)
          /\ rq_result' = Raise(resp)
    /\ rq_pc' = "raised"
    /\ UNCHANGED <<remoteVars, callVars, storeVars, pc, localVars, histVars, dispatchVars, calls,
                   endpoint, attempt,
                   waits, sceneVars>>

\* Lines 612-619: a caught error before the last attempt: sleep, next attempt.
\* A for loop that runs out returns None.
RequestRetries ==
    /\ \E resp \in Responses :
          /\ Caught(TryBody(resp))
          /\ ShouldRetry(attempt)
          /\ Post(resp)
    /\ waits' = Append(waits, BackoffWait(attempt))
    /\ attempt' = attempt + 1
    /\ IF attempt + 1 < Retries
       THEN UNCHANGED <<rq_pc, rq_result, sceneVars>>
       ELSE /\ rq_pc' = "returned"
            /\ rq_result' = ReturnsNone
    /\ UNCHANGED <<remoteVars, callVars, storeVars, pc, localVars, histVars, dispatchVars, calls,
                   endpoint, sceneVars>>

\* Lines 620-622: a caught error on the last attempt: raise last_exc.
RequestExhausted ==
    /\ \E resp \in Responses :
          /\ Caught(TryBody(resp))
          /\ ~ShouldRetry(attempt)
          /\ Post(resp)
          /\ rq_result' = Raise(resp)
    /\ rq_pc' = "raised"
    /\ UNCHANGED <<remoteVars, callVars, storeVars, pc, localVars, histVars, dispatchVars, calls,
                   endpoint, attempt,
                   waits, sceneVars>>

RequestNext ==
    \/ RequestCall
    \/ RequestReturns
    \/ RequestPropagates
    \/ RequestRetries
    \/ RequestExhausted

\* One call of _request on a client; the store and the remote catalog play no
\* part in it.
InitRequest ==
    /\ Init
    /\ catalog = [d \in DatasetSet |-> <<>>]

SpecRequest == InitRequest /\ [][RequestNext]_vars

\* run_monitor after the login of line 1106 on a fresh scenes.db: is_seeded()
\* is False and the for loop is at its first dataset.
RunStarted ==
    /\ entity_ids = {}
    /\ message = <<>>
    /\ requests = <<>>
    /\ scenes = {}
    /\ all_scenes_seeded = FALSE
    /\ seed_cursor = [d \in DatasetSet |-> NoCursor]
    /\ pc = "fetch"
    /\ api_key = "token"
    /\ seeded = FALSE
    /\ di = 1
    /\ known_ids = {}
    /\ available_scenes = <<>>
    /\ new_scenes_total = <<>>
    /\ seed_from = 0
    /\ starting_number = 0
    /\ pending = <<>>
    /\ page = <<>>
    /\ new_scenes = <<>>
    /\ raised = None
    /\ lastRun = "running"
    /\ processed = {}
    /\ polled = {}
    /\ stable = [d \in DatasetSet |-> FALSE]
    /\ walkGoal = [d \in DatasetSet |-> NoGoal]
    /\ calls = [login |-> 1, logout |-> 0]
    /\ audit = NoAudit
    /\ config = NoConfig
    /\ si = 0
    /\ sent = <<>>
    /\ sc_pc = "idle"
    /\ scene_meta = NoMeta
    /\ media = <<>>
    /\ tg_posts = <<>>
    /\ failures = {}
    /\ RequestIdle

\* -------------------------------------------------------------- the seed run
\* The first run on a fresh scenes.db (is_seeded() is False), after login, against
\* a catalog part of which is downloadable.
InitWalk ==
    /\ catalog \in Catalogs
    /\ downloadable \in SUBSET {<<d, eid>> \in DatasetSet \X Ids : eid \in SeqIds(catalog[d])}
    /\ RunStarted

\* The for loop of lines 1115-1156 when no request raises and the process is
\* not killed.
WalkNext ==
    \/ ReconcileNew
    \/ MarkNewlyScanned
    \/ SeedStart
    \/ SeedPage
    \/ SeedFlushAdd
    \/ SeedFlushCursor
    \/ SeedFinalFlush
    \/ SeedClearCursor
    \/ MarkSeeded

\* The statements of the run execute one after the other: a step that can be
\* taken is taken.
SpecWalk == InitWalk /\ [][WalkNext]_vars /\ WF_vars(WalkNext)

\* -------------------------------------------------------------- the available fetch
\* A result list of n records for the scene-search of one dataset.
LongList(n) == [i \in 1..n |-> ((i - 1) % NumIds) + 1]

\* The longest available set: ExtraPages pages and one record more than
\* max_results.
LongMax == max_results + ExtraPages * batch_size + 1

\* The first dataset of a run on a fresh store has a catalog of any length up to
\* LongMax, the records of some ids are flagged available.
InitFetch ==
    /\ \E n \in 0..LongMax :
          catalog = [d \in DatasetSet |-> IF d = DATASETS[1] THEN LongList(n) ELSE <<>>]
    /\ \E S \in SUBSET Ids : downloadable = DatasetSet \X S
    /\ RunStarted

\* Lines 1120-1138 with the search_dataset call of line 1125.
SpecFetch == InitFetch /\ [][ReconcileNew]_vars

\* -------------------------------------------------------------- a store call
\* What table scenes can hold: entity_id is the primary key, so at most one row
\* per id, of any dataset, scanned or not, notified or not.
NoRow == [dataset |-> None, available |-> 0, notified |-> 0]

RowShapes == [dataset : DatasetSet, available : {0, 1}, notified : {0, 1}]

Tables ==
    {{[entity_id |-> eid, dataset |-> f[eid].dataset, available |-> f[eid].available,
       notified |-> f[eid].notified] : eid \in {e \in Ids : f[e] # NoRow}} :
        f \in [Ids -> RowShapes \cup {NoRow}]}

\* db.mark_available(entity_ids) is about to be called on some table with some
\* ids, stored or not.
InitStore ==
    /\ entity_ids \in SUBSET Ids
    /\ message = <<>>
    /\ requests = <<>>
    /\ catalog = [d \in DatasetSet |-> <<>>]
    /\ downloadable = {}
    /\ scenes \in Tables
    /\ all_scenes_seeded = FALSE
    /\ seed_cursor = [d \in DatasetSet |-> NoCursor]
    /\ pc = "db_call"
    /\ LocalsInit
    /\ lastRun = "none"
    /\ processed = {}
    /\ polled = {}
    /\ stable = [d \in DatasetSet |-> FALSE]
    /\ walkGoal = [d \in DatasetSet |-> NoGoal]
    /\ calls = NoCalls
    /\ audit = NoAudit
    /\ config = NoConfig
    /\ si = 0
    /\ sent = <<>>
    /\ sc_pc = "idle"
    /\ scene_meta = NoMeta
    /\ media = <<>>
    /\ tg_posts = <<>>
    /\ failures = {}
    /\ RequestIdle

\* Database.mark_available, lines 549-559.
MarkAvailableCall ==
    /\ pc = "db_call"
    /\ scenes' = mark_available(scenes, entity_ids)
    /\ pc' = "db_return"
    /\ UNCHANGED <<remoteVars, callVars, all_scenes_seeded, seed_cursor, localVars, histVars,
                   requestVars, dispatchVars, calls, sceneVars>>

SpecStore == InitStore /\ [][MarkAvailableCall]_vars

\* -------------------------------------------------------------- the summary
\* One line of the message; the fields a line does not show are None.
Line(kind, dataset, n, display_id, acq_date) ==
    [kind |-> kind, dataset |-> dataset, n |-> n, display_id |-> display_id,
     acq_date |-> acq_date]

\* extract_acquisition_date for a record without temporalCoverage: the date of
\* publishDate, or None.
extract_acquisition_date(s) == s.publishDate

\* by_dataset (lines 1219-1224): the keys in the order of their first record,
\* and the records of one key.
RECURSIVE Keys(_, _)
Keys(scenes_list, seen) ==
    IF scenes_list = <<>> THEN <<>>
    ELSE IF Head(scenes_list).dataset \in seen THEN Keys(Tail(scenes_list), seen)
    ELSE <<Head(scenes_list).dataset>>
            \o Keys(Tail(scenes_list), seen \cup {Head(scenes_list).dataset})

Group(scenes_list, dataset) == SelectSeq(scenes_list, LAMBDA s : s.dataset = dataset)

\* Line 1238 for one record.
ExampleLine(s) ==
    Line("example", None, 0, s.entityId,
         IF extract_acquisition_date(s) = None THEN "Unknown date"
         ELSE extract_acquisition_date(s))

\* Lines 1235-1238 with dataset_scenes[:2].
Examples_two(dataset_scenes) ==
    [i \in 1..Min(2, Len(dataset_scenes)) |-> ExampleLine(dataset_scenes[i])]

\* Lines 1235-1238: the first three records of the group.
Examples(dataset_scenes) ==
    [i \in 1..Min(3, Len(dataset_scenes)) |-> ExampleLine(dataset_scenes[i])]

\* Lines 1240-1241.
More(dataset_scenes) ==
    IF Len(dataset_scenes) > 3
    THEN <<Line("more", None, Len(dataset_scenes) - 3, None, None)>>
    ELSE <<>>

\* Lines 1231-1241: the lines of the groups, in the order of the keys.
RECURSIVE Blocks(_, _)
Blocks(keys, scenes_list) ==
    IF keys = <<>> THEN <<>>
    ELSE LET dataset_scenes == Group(scenes_list, Head(keys))
         IN  <<Line("dataset", Head(keys), Len(dataset_scenes), None, None)>>
                \o Examples(dataset_scenes) \o More(dataset_scenes)
                \o Blocks(Tail(keys), scenes_list)

\* format_notification, lines 1217-1243: the lines that are joined.
format_notification(scenes_list, url_count) ==
    <<Line("header", None, Len(scenes_list), None, None)>>
        \o (IF url_count > 0 THEN <<Line("urls", None, url_count, None, None)>> ELSE <<>>)
        \o Blocks(Keys(scenes_list, {}), scenes_list)

\* The new sets of up to MaxSummary records: each record of any dataset, the
\* first two with or without a publishDate.
SummarySets ==
    UNION {{[i \in 1..n |-> [entityId |-> ((i - 1) % NumIds) + 1, dataset |-> f[i],
                             publishDate |-> IF i \in dated THEN "1972-05-31" ELSE None]] :
               <<f, dated>> \in [1..n -> DatasetSet] \X SUBSET (1..Min(n, 2))} :
           n \in 1..MaxSummary}

\* A run at line 1185: the new set is not empty and a summary is to be sent.
InitFormat ==
    /\ entity_ids = {}
    /\ message = <<>>
    /\ requests = <<>>
    /\ catalog = [d \in DatasetSet |-> <<>>]
    /\ downloadable = {}
    /\ scenes = {}
    /\ all_scenes_seeded = TRUE
    /\ seed_cursor = [d \in DatasetSet |-> NoCursor]
    /\ pc = "format"
    /\ api_key = "token"
    /\ seeded = TRUE
    /\ di = 0
    /\ known_ids = {}
    /\ available_scenes = <<>>
    /\ new_scenes_total \in SummarySets
    /\ seed_from = 0
    /\ starting_number = 0
    /\ pending = <<>>
    /\ page = <<>>
    /\ new_scenes = <<>>
    /\ raised = None
    /\ lastRun = "running"
    /\ processed = {}
    /\ polled = {}
    /\ stable = [d \in DatasetSet |-> FALSE]
    /\ walkGoal = [d \in DatasetSet |-> NoGoal]
    /\ calls = [login |-> 1, logout |-> 0]
    /\ audit = NoAudit
    /\ config = NoConfig
    /\ si = 0
    /\ sent = <<>>
    /\ sc_pc = "idle"
    /\ scene_meta = NoMeta
    /\ media = <<>>
    /\ tg_posts = <<>>
    /\ failures = {}
    /\ RequestIdle

\* Line 1185.
FormatNotification ==
    /\ pc = "format"
    /\ message' = format_notification(new_scenes_total, Len(new_scenes_total))
    /\ pc' = "summary"
    /\ UNCHANGED <<remoteVars, entity_ids, requests, storeVars, localVars, histVars,
                   requestVars, dispatchVars, calls, sceneVars>>

SpecFormat == InitFormat /\ [][FormatNotification]_vars

\* -------------------------------------------------------------- one cycle
\* A whole first run after its login, when no request fails and the process is
\* not killed: the for loop of lines 1115-1156, then the dispatch of lines
\* 1160-1196 step by step.
CycleNext == WalkNext \/ DispatchNext

\* The catalogs are wholly downloadable, or wholly but for their first record.
InitCycle ==
    /\ InitWalk
    /\ \E S \in {Ids, Ids \ {1}} :
          downloadable = {<<d, eid>> \in DatasetSet \X S : eid \in SeqIds(catalog[d])}

SpecCycle == InitCycle /\ [][CycleNext]_vars

\* -------------------------------------------------------------- the session
\* Lines 581-583: the headers of a request.
Headers == IF api_key # None THEN {"X-Auth-Token"} ELSE {}

\* A request as the service sees it, and whether _request returned its data.
Sends(e, ok) == Append(requests, [endpoint |-> e, headers |-> Headers, ok |-> ok])

\* A client as run_monitor makes and uses it: login, the searches of the try
\* block, the logout of the finally block; and logout called again.
InitSession ==
    /\ entity_ids = {}
    /\ message = <<>>
    /\ requests = <<>>
    /\ catalog = [d \in DatasetSet |-> <<>>]
    /\ downloadable = {}
    /\ scenes = {}
    /\ all_scenes_seeded = FALSE
    /\ seed_cursor = [d \in DatasetSet |-> NoCursor]
    /\ pc = "client"
    /\ LocalsInit
    /\ lastRun = "running"
    /\ processed = {}
    /\ polled = {}
    /\ stable = [d \in DatasetSet |-> FALSE]
    /\ walkGoal = [d \in DatasetSet |-> NoGoal]
    /\ calls = NoCalls
    /\ audit = NoAudit
    /\ config = NoConfig
    /\ si = 0
    /\ sent = <<>>
    /\ sc_pc = "idle"
    /\ scene_meta = NoMeta
    /\ media = <<>>
    /\ tg_posts = <<>>
    /\ failures = {}
    /\ RequestIdle

\* Lines 624-631: api_key is assigned when _request returns.
ClientLogin ==
    /\ pc = "client"
    /\ \E ok \in BOOLEAN :
          /\ requests' = Sends("login-token", ok)
          /\ api_key' = IF ok THEN "token" ELSE api_key
          /\ pc' = IF ok THEN "session" ELSE "finally"
    /\ UNCHANGED <<remoteVars, entity_ids, message, storeVars, seeded, di, known_ids,
                   available_scenes, new_scenes_total, seed_from, starting_number, pending,
                   page, new_scenes, raised, histVars, requestVars, dispatchVars, calls,
                   sceneVars>>

\* A scene-search request of search_dataset or search_all_scenes (lines 652,
\* 702); when it raises, the finally block is next.
ClientSearch ==
    /\ pc = "session"
    /\ Len(requests) < MaxRequests
    /\ \E ok \in BOOLEAN :
          /\ requests' = Sends("scene-search", ok)
          /\ pc' = IF ok THEN "session" ELSE "finally"
    /\ UNCHANGED <<remoteVars, entity_ids, message, storeVars, localVars, histVars, requestVars,
                   dispatchVars, calls, sceneVars>>

\* The try block is left.
ClientDone ==
    /\ pc = "session"
    /\ pc' = "finally"
    /\ UNCHANGED <<remoteVars, callVars, storeVars, localVars, histVars, requestVars,
                   dispatchVars, calls, sceneVars>>

\* Lines 633-638: logout, called by the finally block and then again; line 637
\* is not reached when the request raises.
ClientLogout ==
    /\ pc \in {"finally", "logged_out"}
    /\ Len(requests) < MaxRequests
    /\ IF LogoutCalled
       THEN \E ok \in BOOLEAN :
               /\ requests' = Sends("logout", ok)
               /\ api_key' = IF ok THEN None ELSE api_key
       ELSE UNCHANGED <<requests, api_key>>
    /\ pc' = "logged_out"
    /\ UNCHANGED <<remoteVars, entity_ids, message, storeVars, seeded, di, known_ids,
                   available_scenes, new_scenes_total, seed_from, starting_number, pending,
                   page, new_scenes, raised, histVars, requestVars, dispatchVars, calls,
                   sceneVars>>

SessionNext == ClientLogin \/ ClientSearch \/ ClientDone \/ ClientLogout

SpecSession == InitSession /\ [][SessionNext]_vars

\* ============================================================ claims
WalkPcs == {"seed_page", "seed_flush_add", "seed_flush_cursor", "seed_final", "seed_clear"}

C2_AtLeastOnce ==
    (pc = "idle" /\ lastRun = "ok") =>
        \A r \in scenes : r.entity_id \in polled => r.notified = 1

\* C3 (as claimed): when the processing of one dataset raises, every other
\* dataset is still reconciled in that run and the rows polled for the
\* reconciled datasets are notified by the end of the run.
C3_FailureIsolation ==
    (pc = "logout" /\ raised \in DatasetSet) =>
        /\ \A d \in DatasetSet \ {raised} : d \in processed
        /\ \A r \in scenes :
              (r.dataset \in processed /\ r.entity_id \in polled) => r.notified = 1

\* C4: a walk that was cut by crashes and restarted from the persisted cursor
\* (or from 1) ends with the same set of available=0 rows of the dataset as an
\* uninterrupted walk of the unchanged catalog, and a walk is never at a position
\* before the persisted cursor.
C4_Resumability ==
    /\ (pc = "seed_clear" /\ walkGoal[cur_dataset].set) =>
          get_unavailable_ids(scenes, cur_dataset) = walkGoal[cur_dataset].ids
    /\ (pc \in WalkPcs /\ seed_cursor[cur_dataset] # NoCursor) =>
          /\ seed_from <= seed_cursor[cur_dataset]
          /\ seed_cursor[cur_dataset] <= starting_number

\* C4 witness: a walk that a crash cut after a flush has resumed behind
\* position 1 and completed, leaving unscanned rows.
C4_Witness ==
    /\ pc = "seed_clear"
    /\ walkGoal[cur_dataset].set
    /\ walkGoal[cur_dataset].interrupted
    /\ seed_from > 1
    /\ walkGoal[cur_dataset].ids # {}

\* C5: no step sets the available flag of a row back from 1 to 0, nor drops
\* the row.
C5_AvailableMonotonic ==
    [][\A r \in scenes : r.available = 1 =>
          /\ \E r2 \in scenes' : r2.entity_id = r.entity_id
          /\ \A r2 \in scenes' : r2.entity_id = r.entity_id => r2.available = 1]_vars

\* C5 witness: the walk is about to call add_scenes(available=False) with an
\* id whose row has available = 1.
C5_Witness ==
    /\ pc \in {"seed_flush_add", "seed_final"}
    /\ \E r \in scenes : r.available = 1 /\ r.entity_id \in SeqIds(pending)

UniqueIds(db) == \A r1, r2 \in db : r1.entity_id = r2.entity_id => r1 = r2

AddScenesKeepsRows ==
    pc \in {"fetch", "seed_flush_add", "seed_final"} =>
        (scenes \subseteq scenes' /\ UniqueIds(scenes'))

\* C6: entity_id is unique in table scenes, and a step that calls add_scenes
\* leaves every existing row as it is.
C6_FirstWriteWins ==
    [](UniqueIds(scenes)) /\ [][AddScenesKeepsRows]_vars

\* C6 witness: the poll has called add_scenes with an id whose row belongs to
\* another dataset, and with ids that had no row.
C6_Witness ==
    /\ pc = "mark_avail"
    /\ \E r \in scenes : r.entity_id \in SeqIds(new_scenes) /\ r.dataset # cur_dataset
    /\ \E r \in scenes : r.entity_id \in SeqIds(new_scenes) /\ r.dataset = cur_dataset

\* C7: a call makes at most 5 posts; one whose attempts all fail transiently
\* raises the error of its fifth attempt; one whose attempt succeeds returns
\* the data on that attempt, every earlier attempt having been slept after.
C7_RetryBound ==
    /\ posts <= Retries
    /\ (rq_pc = "raised" /\ allTransient) =>
          (posts = Retries /\ rq_result = Raise(last_resp))
    /\ rq_pc = "returned" =>
          (rq_result = Data /\ TryBody(last_resp) = None /\ posts = Len(waits) + 1)

\* C7 witness: five transient failures in a row have ended the call.
C7_Witness ==
    rq_pc = "raised" /\ allTransient /\ posts = Retries

\* C8 (as claimed): a call that keeps failing transiently has slept 1, 2, 4, 8
\* and 16 seconds by the time it gives up.
C8_BackoffSchedule ==
    (rq_pc = "raised" /\ allTransient /\ posts = Retries) => waits = <<1, 2, 4, 8, 16>>

\* C9 (as claimed): a first response with a 4xx status other than 429 ends the
\* call at once: it has raised, with no sleep and no second attempt.
C9_FatalNotRetried ==
    (posts = 1 /\ IsFatalHTTP(last_resp)) => (rq_pc = "raised" /\ waits = <<>>)

\* C10 (as claimed): a first response whose body carries an errorCode ends the
\* call at once: it has raised, with no sleep and no second attempt.
C10_ServiceErrorImmediate ==
    (posts = 1 /\ last_resp.errorCode) => (rq_pc = "raised" /\ waits = <<>>)

RunEnds == pc = "logout" /\ pc' = "idle" /\ lastRun' # "crashed"

\* C11 (as claimed): when the logout request fails, the run still surfaces what
\* the try block gave: it returns if the try block returned, and raises the
\* error of the try block if that raised.
C11_LogoutBestEffort ==
    [][RunEnds => lastRun' = (IF raised = None THEN "ok" ELSE "error")]_vars

SessionCounts ==
    /\ calls.login <= 1
    /\ calls.logout <= 1
    /\ pc \notin {"idle", "login"} => calls.login = 1
    /\ pc # "idle" => calls.logout = 0

SessionReleased ==
    RunEnds => /\ calls'.login = 1
               /\ calls'.logout = (IF api_key # None THEN 1 ELSE 0)

\* C12: a run calls login exactly once, and a run whose login succeeded posts
\* the logout request exactly once, when it ends, whether the try block
\* returned or raised (in the reconciliation, the walk or the dispatch).
C12_ScopedSession ==
    [](SessionCounts) /\ [][SessionReleased]_vars

\* C12 witness: a run whose try block raised after the login has ended with
\* one login and one logout request.
C12_Witness ==
    /\ pc = "idle"
    /\ lastRun = "error"
    /\ calls = [login |-> 1, logout |-> 1]

Notified(eid) == \E r \in scenes : r.entity_id = eid /\ r.notified = 1

ChainShape ==
    \A k \in 1..Len(tg_posts) :
        LET p == tg_posts[k]
        IN  /\ p.kind = "group" => (k = 1 /\ Len(media) >= 2 /\ p.media = media)
            /\ p.kind = "photo" =>
                  /\ p.media = <<media[1]>>
                  /\ \/ k = 1 /\ Len(media) = 1
                     \/ k = 2 /\ tg_posts[1].kind = "group" /\ ~tg_posts[1].ok
            /\ p.kind = "text" =>
                  /\ p.media = <<>>
                  /\ \/ k = 1 /\ media = <<>>
                     \/ k > 1 /\ tg_posts[k - 1].kind = "photo" /\ ~tg_posts[k - 1].ok
            /\ k < Len(tg_posts) => ~p.ok

ChainComplete ==
    sc_pc = "return" =>
        /\ tg_posts # <<>>
        /\ tg_posts[Len(tg_posts)].ok \/ tg_posts[Len(tg_posts)].kind = "text"

\* C13: in per-record mode a failed media group is followed by a photo of the
\* first image, a failed photo (or no image at all) by the text; the call
\* returns with a delivered message or a tried text, nothing is raised, and the
\* record of every call is notified at the end of the run, delivered or not.
C13_FallbackChain ==
    /\ ChainShape
    /\ ChainComplete
    /\ pc \in {"scene", "mark_notified"} => raised = None
    /\ pc = "logout" =>
          \A k \in 1..Len(sent) :
              sent[k].kind = "scene" =>
                  (raised = None /\ Notified(new_scenes_total[sent[k].rec].entityId))

\* C13 witness: the run is over for a record whose media group, photo and text
\* all failed, and the record is notified.
C13_Witness ==
    /\ pc = "logout"
    /\ Len(tg_posts) = 3
    /\ \A k \in 1..3 : ~tg_posts[k].ok
    /\ ~sent[Len(sent)].ok
    /\ Notified(new_scenes_total[sent[Len(sent)].rec].entityId)

EnrichmentOmits ==
    sc_pc \in {"send", "photo", "text", "return"} =>
        /\ ("image.jpg" \in SeqIds(media)) =
              (scene_meta.browse_url /\ "download" \notin failures)
        /\ ("location.png" \in SeqIds(media)) = (scene_meta.bbox /\ "map" \notin failures)
        /\ scene_meta.location = (scene_meta.bbox /\ "geocode" \notin failures)

MessageSent ==
    sc_pc = "return" =>
        /\ tg_posts # <<>>
        /\ \A k \in 1..Len(tg_posts) : tg_posts[k].location = scene_meta.location
        /\ tg_posts[1].kind = (IF Len(media) >= 2 THEN "group"
                               ELSE IF Len(media) = 1 THEN "photo" ELSE "text")

LoopGoesOn ==
    sc_pc = "return" =>
        /\ sent' = Append(sent, Attempt("telegram", "scene", si, Delivered))
        /\ IF si < Len(new_scenes_total)
           THEN pc' = "scene" /\ si' = si + 1 /\ sc_pc' = "idle"
           ELSE pc' = "mark_notified"

\* C17: a failed location lookup, image download, resize or map rendering only
\* leaves the location or that image out of the message of the record (a
\* failed resize leaves the image as downloaded); the message is still sent,
\* as text when no image is left, and the loop goes on to the next record.
C17_EnrichmentDegrades ==
    [](EnrichmentOmits /\ MessageSent) /\ [][LoopGoesOn]_vars

\* C17 witness: the lookup, the download and the map of a record all failed,
\* its message went as text, and further records follow.
C17_Witness ==
    /\ sc_pc = "return"
    /\ scene_meta.browse_url
    /\ scene_meta.bbox
    /\ failures = {"geocode", "download", "map"}
    /\ tg_posts[1].kind = "text"
    /\ si < Len(new_scenes_total)

Deliveries(to, kind) == {k \in 1..Len(sent) : sent[k].to = to /\ sent[k].kind = kind}
ChannelSet == {"ntfy", "telegram", "discord"}

\* C14: with n new records and threshold t, once the deliveries are done: if
\* Telegram is enabled and n <= t the run has sent the message of each of the
\* n records, in order, and no summary; else (n > t, or Telegram not enabled)
\* it has sent no message of a record and one summary to each enabled channel.
C14_ThresholdSwitch ==
    pc = "mark_notified" =>
        LET n == Len(new_scenes_total)
        IN  IF config.telegram /\ n <= config.max_individual
            THEN /\ Len(sent) = n
                 /\ \A i \in 1..n : /\ sent[i].to = "telegram"
                                     /\ sent[i].kind = "scene"
                                     /\ sent[i].rec = i
            ELSE /\ \A k \in 1..Len(sent) : sent[k].kind = "summary"
                 /\ \A c \in ChannelSet :
                       Cardinality(Deliveries(c, "summary")) = (IF config[c] THEN 1 ELSE 0)

\* C14 witness: Telegram is enabled and the new set exceeds the threshold: the
\* summary went to Telegram and to ntfy, and no message of a record.
C14_Witness ==
    /\ pc = "mark_notified"
    /\ config.telegram
    /\ config.ntfy
    /\ Len(new_scenes_total) > config.max_individual
    /\ Len(sent) = 2

\* C15: a dispatch whose deliveries were attempted never raises, and after
\* it every record of the new set has notified = 1 in the store, whether the
\* deliveries succeeded, failed in part or all failed.
C15_AllNotified ==
    /\ pc \in {"strategy", "scene", "summary", "mark_notified"} =>
          (raised = None /\ new_scenes_total # <<>>)
    /\ (pc = "logout" /\ raised = None) =>
          \A i \in 1..Len(new_scenes_total) : Notified(new_scenes_total[i].entityId)

\* C15 witness: every delivery of a run with two or more new records failed,
\* and the run has marked the records.
C15_Witness ==
    /\ pc = "logout"
    /\ raised = None
    /\ Len(new_scenes_total) >= 2
    /\ sent # <<>>
    /\ \A k \in 1..Len(sent) : ~sent[k].ok
    /\ \A i \in 1..Len(new_scenes_total) : Notified(new_scenes_total[i].entityId)

SummaryMode ==
    /\ config # NoConfig
    /\ ~(config.telegram /\ Len(new_scenes_total) <= config.max_individual)

\* C16: in summary mode every enabled channel gets its delivery attempt,
\* whichever of the other channels failed, and the records are notified when
\* the run ends.
C16_ChannelIsolation ==
    (pc \in {"mark_notified", "logout"} /\ SummaryMode) =>
        /\ \A c \in ChannelSet : config[c] => Deliveries(c, "summary") # {}
        /\ pc = "logout" =>
              (raised = None /\
               \A i \in 1..Len(new_scenes_total) : Notified(new_scenes_total[i].entityId))

\* C16 witness: the three channels are enabled, the post to ntfy failed, the
\* posts to Telegram and Discord were made, and the records are notified.
C16_Witness ==
    /\ pc = "logout"
    /\ SummaryMode
    /\ config.ntfy /\ config.telegram /\ config.discord
    /\ Len(sent) = 3
    /\ ~sent[1].ok /\ sent[2].ok /\ sent[3].ok
    /\ \A i \in 1..Len(new_scenes_total) : Notified(new_scenes_total[i].entityId)

\* The last lines of the audit file are the comment line and the URL line of
\* each record of the new set, in order.
AuditHasNewSet ==
    LET n == Len(new_scenes_total)
        written == audit.lines
    IN  /\ Len(written) >= 2 * n
        /\ \A i \in 1..n :
              LET k == Len(written) - 2 * (n - i)
                  scene == new_scenes_total[i]
              IN  /\ written[k] = AuditLine("url", 0, scene.entityId, scene.dataset)
                  /\ written[k - 1] =
                        AuditLine("comment", 0, scene.entityId, scene.dataset)

\* C18: from line 1166 to the end of the run, so before and during every
\* delivery and whatever the configuration enables, the file has been opened
\* for appending (what it held is kept) and the comment line and the URL line
\* of every record of the new set have been written to it.
C18_AuditFirst ==
    /\ audit.mode \in {None, "a"}
    /\ (pc \in {"strategy", "scene", "summary", "mark_notified"}
          \/ sent # <<>> \/ sc_pc # "idle") =>
          (audit.mode = "a" /\ AuditHasNewSet)

\* C18 witness: no channel is enabled, nothing was sent, and the file holds
\* the lines of the two or more records of the new set.
C18_Witness ==
    /\ pc = "mark_notified"
    /\ ~config.ntfy /\ ~config.telegram /\ ~config.discord
    /\ sent = <<>>
    /\ audit.mode = "a"
    /\ AuditHasNewSet
    /\ Len(new_scenes_total) >= 2

DistinctIds(ids) == Cardinality(SeqIds(ids)) = Len(ids)

C20_AuditSize ==
    audit.mode # None => Len(audit.lines) = Len(new_scenes_total)

Lines(kind) == {k \in 1..Len(audit.lines) : audit.lines[k].kind = kind}

\* C20 (amended): the write of the audit file for n new records adds 2n + 3
\* lines to it: a blank line, the header line, the count line with n, and for
\* each record, in order, a comment line followed by the one URL line.
C20_AuditLines ==
    audit.mode # None =>
        LET n == Len(new_scenes_total)
        IN  /\ Len(audit.lines) = 2 * n + 3
            /\ Lines("blank") = {1}
            /\ Lines("header") = {2}
            /\ Lines("count") = {3}
            /\ audit.lines[3].n = n
            /\ Lines("comment") = {2 * i + 2 : i \in 1..n}
            /\ Lines("url") = {2 * i + 3 : i \in 1..n}
            /\ \A i \in 1..n :
                  /\ audit.lines[2 * i + 3].entityId = new_scenes_total[i].entityId
                  /\ audit.lines[2 * i + 3].dataset = new_scenes_total[i].dataset

\* C20 witness: the file was written for a new set of 3 records: 9 lines.
C20_Witness ==
    /\ pc = "strategy"
    /\ Len(new_scenes_total) = 3
    /\ Len(audit.lines) = 9

\* The rows stored as unscanned whose id is in the available set of the poll.
Digitised == {r \in scenes : r.available = 0 /\ r.entity_id \in available_ids}

DigitisedFlipped ==
    (pc = "mark_avail" /\ pc' # "idle") =>
        \A r \in Digitised :
            /\ [r EXCEPT !.available = 1] \in scenes'
            /\ r.entity_id \notin EntityIds(new_scenes_total)

OnlyDispatchedNotified ==
    \A r \in scenes :
        (r.notified = 0 /\ r.entity_id \notin EntityIds(new_scenes_total)) =>
            \E r2 \in scenes' : r2.entity_id = r.entity_id /\ r2.notified = 0

WalkCompleted(d) ==
    /\ walkGoal[d].set
    /\ ~walkGoal[d].interrupted
    /\ ~(pc \in WalkPcs /\ cur_dataset = d)

\* C22 (as claimed, for the walks that ran uncut from position 1): once the
\* walk of a dataset has completed, search_all_scenes is not called for that
\* dataset again, in that run or a later one.
C22_BackfillOnce ==
    pc = "seed_start" => ~WalkCompleted(cur_dataset)

SeedPcs == WalkPcs \cup {"seed_start"}

\* Every dataset was reconciled in this run, no walk is left unfinished and
\* every record of every catalog has its row.
BackfillComplete ==
    /\ processed = DatasetSet
    /\ raised = None
    /\ \A d \in DatasetSet :
          /\ seed_cursor[d] = NoCursor
          /\ SeqIds(catalog[d]) \subseteq RowIds(scenes)

SeededWritten == all_scenes_seeded' /\ ~all_scenes_seeded

\* C23: all_scenes_seeded is written only by a run in which the walk of every
\* dataset has completed and nothing was raised; no step resets it; and while
\* it is set no run is in search_all_scenes.
C23_SeededGating ==
    /\ [][SeededWritten => (pc = "mark_seeded" /\ BackfillComplete)]_vars
    /\ [][all_scenes_seeded => all_scenes_seeded']_vars
    /\ [](all_scenes_seeded => pc \notin SeedPcs)

\* C23 witness: a run that started with the flag set has reconciled its last
\* dataset, with unscanned rows from the backfill in the store.
C23_Witness ==
    /\ pc = "mark_avail"
    /\ seeded
    /\ di = Len(DATASETS)
    /\ \E r \in scenes : r.available = 0

\* The position up to which the walk of cur_dataset is safe in the store: the
\* persisted cursor, or where this call started.
SavedPosition ==
    IF seed_cursor[cur_dataset] = NoCursor THEN seed_from ELSE seed_cursor[cur_dataset]

\* C24 (as claimed, flush_every being 5 in the source): at no point of a walk
\* have more than flush_every pages been fetched since the position the store
\* holds, so a crash loses at most flush_every pages.
C24_FlushWindow ==
    pc \in WalkPcs => starting_number - SavedPosition <= flush_every * batch_size

\* C25 (as claimed): the cursor row of a dataset exists at every moment its
\* walk is in progress, and at no moment once every walk has completed.
C25_CursorLifecycle ==
    /\ pc \in WalkPcs => seed_cursor[cur_dataset] # NoCursor
    /\ all_scenes_seeded => \A d \in DatasetSet : seed_cursor[d] = NoCursor

\* The only writes of a cursor row: line 729 after a flush, line 742.
CursorWrites ==
    seed_cursor' # seed_cursor =>
        /\ \A d \in DatasetSet \ {cur_dataset} : seed_cursor'[d] = seed_cursor[d]
        /\ \/ pc = "seed_flush_cursor" /\ pending = <<>>
           \/ pc = "seed_clear"

CursorSaved ==
    (pc = "seed_flush_cursor" /\ pc' # "idle") =>
        (seed_cursor'[cur_dataset] = starting_number /\ starting_number > 1)

CursorDeleted ==
    (pc = "seed_clear" /\ pc' # "idle") => seed_cursor'[cur_dataset] = NoCursor

\* C25 (amended): the cursor row of a dataset is created by the first flush of
\* its walk, not at the start of the walk; each flush writes the advanced
\* position to it and the completion of the walk deletes it; nothing else
\* writes it.  A walk in progress without the row started at position 1, and
\* no row is left once every walk has completed.
C25_CursorFromFirstFlush ==
    /\ [][CursorWrites]_vars
    /\ [][CursorSaved]_vars
    /\ [][CursorDeleted]_vars
    /\ []((pc \in WalkPcs /\ seed_cursor[cur_dataset] = NoCursor) => seed_from = 1)
    /\ [](all_scenes_seeded => \A d \in DatasetSet : seed_cursor[d] = NoCursor)

\* C25 witness: a walk that started without a cursor row has flushed, which
\* created the row, and reached its end, where the row is deleted.
C25_Witness ==
    /\ pc = "seed_clear"
    /\ seed_from = 1
    /\ seed_cursor[cur_dataset] # NoCursor

DeliveryPcs == {"strategy", "scene", "summary", "mark_notified"}

EmptySetSkipped ==
    (pc = "dispatch" /\ new_scenes_total = <<>> /\ pc' # "idle") =>
        /\ pc' = "logout"
        /\ audit' = NoAudit
        /\ sent' = <<>>
        /\ scenes' = scenes

\* C26: a run whose new_scenes_total is empty goes from line 1160 to the
\* finally block: the audit file is not opened, no delivery is attempted, no
\* row changes; and no run is in the dispatch (lines 1166-1189) with an empty
\* set.
C26_EmptyChangeSet ==
    /\ [][EmptySetSkipped]_vars
    /\ [](new_scenes_total = <<>> =>
            (audit = NoAudit /\ sent = <<>> /\ pc \notin DeliveryPcs))

\* C26 witness: a run that reconciled every dataset and found nothing new has
\* passed line 1160, with rows in the store that are not notified.
C26_Witness ==
    /\ pc = "logout"
    /\ raised = None
    /\ processed = DatasetSet
    /\ new_scenes_total = <<>>
    /\ \E r \in scenes : r.notified = 0 /\ r.available = 1

NotifiedKept ==
    \A r \in scenes : r.notified = 1 =>
        /\ \E r2 \in scenes' : r2.entity_id = r.entity_id
        /\ \A r2 \in scenes' : r2.entity_id = r.entity_id => r2.notified = 1

\* C27: no step sets the notified flag of a row back from 1 to 0, and for the
\* ids the run is about to mark, mark_notified applied twice gives the store
\* that applying it once gives.
C27_NotifiedMonotonic ==
    /\ [][NotifiedKept]_vars
    /\ [](pc = "mark_notified" =>
            LET eids == EntityIds(new_scenes_total)
                once == mark_notified(scenes, eids)
            IN  mark_notified(once, eids) = once)

\* C27 witness: mark_notified is about to be called a second time with an id,
\* whose row has notified = 1 already, while another row has notified = 0.
C27_Witness ==
    /\ pc = "mark_notified"
    /\ \E r \in scenes : r.entity_id \in EntityIds(new_scenes_total) /\ r.notified = 1
    /\ \E r \in scenes : r.notified = 0

ReconcileInserts ==
    (pc = "fetch" /\ pc' = "mark_avail") =>
        LET K == get_known_entity_ids(cur_dataset)
            F == SeqIds(available_scenes')
        IN  /\ scenes \subseteq scenes'
            /\ scenes' \ scenes = {Row(eid, cur_dataset, 1) : eid \in F \ K}

ReconcileFlips ==
    (pc = "mark_avail" /\ pc' # "idle") =>
        LET U == get_unavailable_ids(scenes, cur_dataset)
            F == available_ids
        IN  scenes' = {IF r.entity_id \in F \cap U THEN [r EXCEPT !.available = 1] ELSE r :
                          r \in scenes}

SeederWrites ==
    (pc \in {"seed_flush_add", "seed_final"} /\ pc' # "idle") =>
        \A r \in scenes' \ scenes :
            /\ r.available = 0
            /\ r.entity_id \notin known_ids \cup available_ids

WalkEnded(d) == pc \notin SeedPcs \/ cur_dataset # d

\* C30: when no request fails, the walk of each dataset terminates, whatever
\* its catalog; when the loop has ended the buffer is empty and every record of
\* the catalog has its row, and the next step deletes the cursor row.
C30_WalkCompletion ==
    /\ \A d \in DatasetSet : (pc = "seed_start" /\ cur_dataset = d) ~> WalkEnded(d)
    /\ [](pc = "seed_clear" =>
            (pending = <<>> /\ SeqIds(catalog[cur_dataset]) \subseteq RowIds(scenes)))
    /\ [][pc = "seed_clear" => seed_cursor'[cur_dataset] = NoCursor]_vars

\* C30 witness: the walk of a catalog of exactly one full page has ended on the
\* empty page that follows, with rows flushed on the way.
C30_Witness ==
    /\ pc = "seed_clear"
    /\ Len(catalog[cur_dataset]) = batch_size
    /\ page = <<>>
    /\ get_unavailable_ids(scenes, cur_dataset) # {}

\* C31 (as claimed): search_dataset returns every record currently flagged
\* available for the dataset, for every size of the available set.
C31_FullPagination ==
    pc = "mark_avail" => available_scenes = Filtered(cur_dataset)

\* C31 (amended): search_dataset returns the pages of the available set from
\* position 1, in order, up to and including the first page shorter than the page
\* size or the page with which max_results records have been collected: every
\* available record of a set of at most max_results records, and the first
\* max_results records of a larger one.
C31_PaginationToLimit ==
    pc = "mark_avail" =>
        LET avail == Filtered(cur_dataset)
        IN  /\ Len(avail) <= max_results => available_scenes = avail
            /\ Len(avail) > max_results =>
                  available_scenes = SubSeq(avail, 1, max_results)

\* A fetch of an available set of more than max_results records has returned.
C31_Witness ==
    /\ pc = "mark_avail"
    /\ Len(Filtered(cur_dataset)) > max_results
    /\ Len(available_scenes) = max_results

\* The row of table db with primary key eid.
RowOf(db, eid) == CHOOSE r \in db : r.entity_id = eid

\* C32: mark_available sets available = 1 on exactly the existing rows whose
\* ids are given, creates no row for an unknown id (and deletes none), leaves
\* notified, every other field and every other row unchanged, and applied a
\* second time it changes nothing.
C32_MarkAvailableFrame ==
    [][pc = "db_call" =>
          /\ RowIds(scenes') = RowIds(scenes)
          /\ Cardinality(scenes') = Cardinality(scenes)
          /\ \A eid \in RowIds(scenes) :
                LET old == RowOf(scenes, eid)
                    new == RowOf(scenes', eid)
                IN  /\ new.dataset = old.dataset
                    /\ new.notified = old.notified
                    /\ new.available = IF eid \in entity_ids THEN 1 ELSE old.available
          /\ mark_available(scenes', entity_ids) = scenes']_vars

\* mark_available has returned from a call with the id of an unscanned row that
\* is notified, the id of a row left alone and an id that has no row.
C32_Witness ==
    /\ pc = "db_return"
    /\ \E eid \in entity_ids \ RowIds(scenes) : TRUE
    /\ \E r \in scenes : r.entity_id \in entity_ids /\ r.notified = 1
    /\ \E r \in scenes : r.entity_id \notin entity_ids /\ r.available = 0

\* The positions of the lines of kind in the message.
LinesOf(kind) == {i \in 1..Len(message) : message[i].kind = kind}

\* The position of the line that names the dataset, 0 if there is none.
DatasetLine(dataset) ==
    IF \E i \in LinesOf("dataset") : message[i].dataset = dataset
    THEN CHOOSE i \in LinesOf("dataset") : message[i].dataset = dataset
    ELSE 0

\* The lines of kind under the dataset line at position p, up to the next
\* dataset line.
Under(p, kind) ==
    {i \in LinesOf(kind) : i > p /\ \A j \in LinesOf("dataset") : ~(p < j /\ j < i)}

RECURSIVE SumOfLines(_)
SumOfLines(S) ==
    IF S = {} THEN 0
    ELSE LET i == CHOOSE j \in S : TRUE IN message[i].n + SumOfLines(S \ {i})

\* C33: format_notification groups the records by dataset; a group of k
\* records has one dataset line with the count k, followed by exactly min(k, 3)
\* example lines (identifier and date of its first records) and by an "and k-3
\* more" line if and only if k > 3; the counts of the dataset lines sum to the
\* total number of records.
C33_SummaryContent ==
    pc = "summary" =>
        /\ \A d \in DatasetSet :
              LET group == SelectSeq(new_scenes_total, LAMBDA s : s.dataset = d)
                  k == Len(group)
                  p == DatasetLine(d)
              IN  /\ Cardinality({i \in LinesOf("dataset") : message[i].dataset = d})
                        = IF k > 0 THEN 1 ELSE 0
                  /\ k > 0 =>
                        /\ message[p].n = k
                        /\ Cardinality(Under(p, "example")) = Min(k, 3)
                        /\ \A i \in Under(p, "example") :
                              /\ i - p <= Min(k, 3)
                              /\ message[i].display_id = group[i - p].entityId
                              /\ message[i].acq_date \in {group[i - p].publishDate, "Unknown date"}
                              /\ message[i].acq_date = "Unknown date"
                                    <=> group[i - p].publishDate = None
                        /\ Cardinality(Under(p, "more")) = IF k > 3 THEN 1 ELSE 0
                        /\ \A i \in Under(p, "more") : message[i].n = k - 3
        /\ SumOfLines(LinesOf("dataset")) = Len(new_scenes_total)
        /\ Cardinality(LinesOf("example")) + Cardinality(LinesOf("more"))
              + Cardinality(LinesOf("dataset")) + 2 = Len(message)

\* The summary of a new set with a dataset of more than three records and a
\* dataset of at most three.
C33_Witness ==
    /\ pc = "summary"
    /\ \E i \in LinesOf("more") : message[i].n >= 1
    /\ \E i \in LinesOf("dataset") : message[i].n <= 3
    /\ \E i \in LinesOf("example") : message[i].acq_date = "Unknown date"
    /\ \E i \in LinesOf("example") : message[i].acq_date # "Unknown date"

\* Every record of the catalog of d at a position before c has a row.
StoredBefore(d, c) ==
    \A i \in 1..Len(catalog[d]) : i < c => catalog[d][i] \in RowIds(scenes)

\* C34: whenever a cursor value c is persisted for a dataset, every record at
\* a catalog position before c has its row (the known and the available ones had
\* it before the walk, the others were written by a flush); and between the two
\* writes of a flush the buffer has already been written, so that the value about
\* to be persisted skips no unwritten record, whether or not the process is
\* killed there.
C34_DataBeforeCursor ==
    /\ \A d \in DatasetSet :
          seed_cursor[d] # NoCursor => StoredBefore(d, seed_cursor[d])
    /\ pc = "seed_flush_cursor" =>
          (pending = <<>> /\ StoredBefore(cur_dataset, FlushedCursor))

\* The process was killed after a flush: a cursor is persisted behind unscanned
\* rows of its dataset.
C34_Witness ==
    /\ pc = "idle"
    /\ lastRun = "crashed"
    /\ \E d \in DatasetSet :
          /\ seed_cursor[d] # NoCursor
          /\ \E r \in scenes : r.dataset = d /\ r.available = 0

\* C35: in every reachable state of the store, if the all_scenes_seeded flag is
\* set then no dataset has a seed cursor row.
C35_SeededNoCursor ==
    all_scenes_seeded => \A d \in DatasetSet : seed_cursor[d] = NoCursor

\* The flag has just been set by a run whose walk of some dataset had been cut
\* in an earlier run and left unscanned rows.
C35_Witness ==
    /\ all_scenes_seeded
    /\ pc = "dispatch"
    /\ \E d \in DatasetSet :
          /\ walkGoal[d].interrupted
          /\ \E r \in scenes : r.dataset = d /\ r.available = 0

PollOneToOne ==
    (pc = "fetch" /\ pc' = "mark_avail") =>
        LET handed == SubSeq(new_scenes_total', Len(new_scenes_total) + 1,
                             Len(new_scenes_total'))
            inserted == scenes' \ scenes
        IN  /\ DistinctIds([i \in 1..Len(handed) |-> handed[i].entityId])
            /\ EntityIds(handed) = RowIds(inserted)
            /\ \A r \in inserted : r.available = 1 /\ r.dataset = cur_dataset

\* C37 (as claimed): in every cycle the records handed to the dispatcher
\* correspond one-to-one to the rows inserted with available = 1 in that cycle:
\* no entity id occurs twice in new_scenes_total, and every record of it had its
\* row created by the poll that found it.
C37_OneToOne ==
    /\ [](pc = "dispatch" =>
            DistinctIds([i \in 1..Len(new_scenes_total) |-> new_scenes_total[i].entityId]))
    /\ [][PollOneToOne]_vars

\* The for loop of lines 1115-1153, and the dispatch of lines 1160-1189.
LoopPcs == {"fetch", "mark_avail", "mark_seeded"} \cup SeedPcs

\* Every record of the new set has had its delivery attempt, or the summary
\* has gone to every enabled channel.
DeliveriesDone ==
    LET n == Len(new_scenes_total)
    IN  IF PerRecord(config, n)
        THEN \A i \in 1..n : \E k \in 1..Len(sent) : sent[k].kind = "scene" /\ sent[k].rec = i
        ELSE \A c \in SeqIds(Enabled(config)) :
                \E k \in 1..Len(sent) : sent[k].kind = "summary" /\ sent[k].to = c

\* C38: within a run the dispatch starts only when every dataset has been
\* reconciled and, on a seed run, backfilled; the audit lines of the cycle are
\* written before the first delivery attempt; and no row is marked notified
\* before the delivery attempts for all records of the cycle have finished.
C38_DispatchOrdering ==
    /\ pc \in LoopPcs =>
          (audit = NoAudit /\ sent = <<>> /\ tg_posts = <<>> /\ sc_pc = "idle")
    /\ pc \in DeliveryPcs \cup {"dispatch"} =>
          /\ processed = DatasetSet
          /\ ~seeded =>
                /\ all_scenes_seeded
                /\ \A d \in DatasetSet :
                      seed_cursor[d] = NoCursor /\ SeqIds(catalog[d]) \subseteq RowIds(scenes)
    /\ (sent # <<>> \/ tg_posts # <<>> \/ sc_pc # "idle") =>
          (audit.mode = "a" /\ AuditHasNewSet)
    /\ (\E r \in scenes : r.notified = 1) =>
          /\ pc \in {"logout", "idle"}
          /\ pc = "logout" => (sc_pc \in {"idle", "return"} /\ DeliveriesDone)

\* A seed run that stored an unscanned row has sent the messages of two or
\* more records and marked them notified.
C38_Witness ==
    /\ pc = "logout"
    /\ \E r \in scenes : r.notified = 1
    /\ \E r \in scenes : r.available = 0
    /\ Len(sent) >= 2
    /\ \A k \in 1..Len(sent) : sent[k].kind = "scene"
    /\ audit.mode = "a"

\* The positions of the requests to endpoint e.
RequestsTo(e) == {k \in 1..Len(requests) : requests[k].endpoint = e}

\* C39: a logout request is sent only while a session token is held: none when
\* the login never succeeded; after a successful logout the token is cleared and
\* a further logout sends nothing; and the login request is the only request
\* sent without a token.
C39_LogoutWithToken ==
    /\ [](/\ \A k \in RequestsTo("logout") : "X-Auth-Token" \in requests[k].headers
          /\ (\A k \in RequestsTo("login-token") : ~requests[k].ok) =>
                RequestsTo("logout") = {}
          /\ \A k \in RequestsTo("logout") :
                requests[k].ok => (k = Len(requests) /\ api_key = None)
          /\ \A k \in 1..Len(requests) :
                requests[k].headers = {} => requests[k].endpoint = "login-token")
    /\ [][(pc \in {"finally", "logged_out"} /\ api_key = None) => requests' = requests]_vars

\* The logout request of a session succeeded, after a logout request that
\* failed.
C39_Witness ==
    /\ pc = "logged_out"
    /\ api_key = None
    /\ Cardinality(RequestsTo("logout")) = 2
    /\ RequestsTo("scene-search") # {}

====
